---- MODULE Spec2Model ----
(***************************************************************************)
(* Verification model of CalculateAMM.py (Antecedent Moisture Model for    *)
(* PCSWMM): the time-series conformer, the rainfall pre-transform, the     *)
(* per-subcatchment recursion and the twin cache of AMMRun.routing.        *)
(*                                                                         *)
(* Real numbers are exact rationals <<numerator, denominator>> in lowest   *)
(* terms with a positive denominator; times are whole minutes.             *)
(***************************************************************************)
EXTENDS Integers, Sequences, FiniteSets, TLC

(***************************************************************************)
(* Exact rational arithmetic (Python float arithmetic without rounding).   *)
(***************************************************************************)
\* The element of a one-element set.  {e(x) : x \in {v}} evaluates v once
\* and binds x to its value, so v is not evaluated again at every use.
The(S) == CHOOSE r \in S : TRUE

RECURSIVE GCD(_, _)
GCD(a, b) == IF b = 0 THEN a ELSE The({GCD(y, x % y) : x \in {a}, y \in {b}})

Abs(x) == IF x < 0 THEN -x ELSE x

Norm(n, d) ==
    The({The({<<x \div g, y \div g>> : g \in {GCD(Abs(x), y)}}) :
            x \in {IF d < 0 THEN -n ELSE n}, y \in {Abs(d)}})

R(n) == <<n, 1>>

\* Sums and products cancel common factors first, to keep the integers small.
RAdd(a, b) ==
    The({The({Norm(x[1] * (y[2] \div g) + y[1] * (x[2] \div g), (x[2] \div g) * y[2]) :
                 g \in {GCD(x[2], y[2])}}) : x \in {a}, y \in {b}})

RNeg(a) == The({<<-x[1], x[2]>> : x \in {a}})

RSub(a, b) == RAdd(a, RNeg(b))

RMul(a, b) ==
    The({The({<<(x[1] \div g1) * (y[1] \div g2), (x[2] \div g2) * (y[2] \div g1)>> :
                 g1 \in {GCD(Abs(x[1]), y[2])}, g2 \in {GCD(Abs(y[1]), x[2])}}) :
            x \in {a}, y \in {b}})

RInv(a) == The({IF x[1] < 0 THEN <<-x[2], -x[1]>> ELSE <<x[2], x[1]>> : x \in {a}})

RDiv(a, b) == RMul(a, RInv(b))

RLt(a, b) == The({x[1] * y[2] < y[1] * x[2] : x \in {a}, y \in {b}})

RLe(a, b) == The({x[1] * y[2] <= y[1] * x[2] : x \in {a}, y \in {b}})

RMax(a, b) == The({IF RLt(x, y) THEN y ELSE x : x \in {a}, y \in {b}})

\* math.floor
RFloor(a) == The({x[1] \div x[2] : x \in {a}})

Q(n, d) == Norm(n, d)

RECURSIVE RSum(_)
RSum(s) ==
    The({IF Len(x) = 0 THEN <<0, 1>> ELSE RAdd(x[1], RSum(Tail(x))) : x \in {s}})

Zero == R(0)

(***************************************************************************)
(* Sequence helpers (Python list operations).                              *)
(***************************************************************************)
Reverse(s) == [k \in 1..Len(s) |-> s[Len(s) + 1 - k]]

Pop(s) == SubSeq(s, 1, Len(s) - 1)

Last(s) == s[Len(s)]

StrictlyOrdered(s) == \A k \in 1..(Len(s) - 1) : s[k][1] < s[k + 1][1]

NonDecreasing(s) == \A k \in 1..(Len(s) - 1) : s[k] <= s[k + 1]

VARIABLES
    ts,         \* conform_ts: the source list, mutated in place
    out_times,  \* conform_ts: the target times
    conf_ts,    \* conform_ts: the values produced so far
    dti,        \* conform_ts: position of the for loop in out_times
    cpc,        \* conform_ts: "idle", "call", "loop", "done"
    src,        \* the source list as it was passed to conform_ts
    start_t,    \* _start_t: simulation start
    end_t,      \* _end_t: simulation end
    calc_step_min,   \* _calc_step_min
    calc_step_sec,   \* _calc_step_sec: <<seconds>>, or <<>> while the name is not bound
    all_t,      \* _all_t: the simulation instants
    gages,      \* pcpy.SWMM.Raingages: name -> [Series, TimeInterval, RainFormat]
    conformed_rain,  \* _conformed_rain: gage name -> incremental volumes
    rpc,        \* "idle", "run", or the validation error that ended the run
    amm_subs,   \* routing: the list of AMMSub objects
    sub_i,      \* routing: position of the loop over amm_subs
    already_calced_subs,  \* _already_calced_subs: all_params -> position of the sub
    results,    \* sub position -> measure name -> identity of the list object
    heap,       \* identity of a list object -> its elements
    run,        \* AMM_run in progress: derived attributes, inputs, recursion state
    common_temps,         \* _common_temps
    use_temp_timeseries,  \* _use_temp_timeseries
    temp_timeseries,      \* the samples of the series named _temp_timeseries
    pc,         \* routing: "idle", "names", "construct", "loop", "run",
                \* "calculated", "output", "done", "raised"
    calc_log,   \* how each sub got its results: [sub, kind, twin], in order
    tsb_f,      \* the TSB object: file, tracked position, saved footer entries
    tsb_log,    \* the write_ts calls made so far: names and lengths
    amm_entities,  \* routing: the entities of the AMM_Subcatchments layer
    inflow_file,   \* the inflow interface file: whether opened, and what was written
    tsb_file,      \* the binary series file on disk: "old", "open", "written"
    called,     \* a function called on its own: its name and arguments
    returned    \* what that call returned or raised

cvars == <<ts, out_times, conf_ts, dti, cpc, src>>

gvars == <<start_t, end_t, calc_step_min, calc_step_sec, all_t>>

rvars == <<gages, conformed_rain, rpc>>

avars == <<amm_subs, sub_i, already_calced_subs, results, heap, run, common_temps,
           use_temp_timeseries, temp_timeseries, pc, calc_log>>

tvars == <<tsb_f, tsb_log>>

ovars == <<amm_entities, inflow_file, tsb_file>>

pvars == <<called, returned>>

xvars == <<tvars, ovars, pvars>>

vars == <<cvars, gvars, rvars, avars, xvars>>

IdleConform ==
    /\ ts = <<>> /\ out_times = <<>> /\ conf_ts = <<>> /\ dti = 0
    /\ cpc = "idle" /\ src = <<>>

IdleClock ==
    /\ start_t = 0 /\ end_t = 0 /\ calc_step_min = 0 /\ all_t = <<>>
    /\ calc_step_sec = <<>>

IdleRain == gages = <<>> /\ conformed_rain = <<>> /\ rpc = "idle"

\* No AMM_run in progress.
NoRun == [ti |-> 0]

IdleRouting ==
    /\ amm_subs = <<>> /\ sub_i = 0 /\ already_calced_subs = <<>>
    /\ results = <<>> /\ heap = <<>> /\ run = NoRun /\ common_temps = <<>>
    /\ use_temp_timeseries = FALSE /\ temp_timeseries = <<>>
    /\ pc = "idle" /\ calc_log = <<>>

\* No TSB object has been made.
NoTSB == [start_day |-> <<0, 1>>, f |-> <<>>, closed |-> FALSE, current_pos |-> 0,
          saved_ts |-> <<>>]

IdleTSB == tsb_f = NoTSB /\ tsb_log = <<>>

\* The inflow interface file has not been opened.
NoInflow == [opened |-> FALSE, step_sec |-> 0, nodes |-> {}, flows |-> <<>>]

IdleOutput == amm_entities = <<>> /\ inflow_file = NoInflow /\ tsb_file = "old"

IdleCall == called = <<>> /\ returned = <<>>

(***************************************************************************)
(* lin_interp: y0 + (y1 - y0) / (t1 - t0) * (t - t0).                      *)
(***************************************************************************)
\* Mutant: the slope is applied to the time left to t1 instead of the time since t0.
lin_interp_from_t1(t, t0, t1, y0, y1) ==
    LET m == RDiv(RSub(y1, y0), R(t1 - t0))
    IN  RAdd(y0, RMul(m, R(t1 - t)))

lin_interp(t, t0, t1, y0, y1) ==
    LET m == RDiv(RSub(y1, y0), R(t1 - t0))
    IN  RAdd(y0, RMul(m, R(t - t0)))

(***************************************************************************)
(* conform_ts, one branch at a time.  A scan state is a record             *)
(* [ts, conf_ts, dti]; ts is the reversed list, so ts[Len(ts)] is the      *)
(* earliest remaining sample (ts[-1]) and ts[Len(ts)-1] the next (ts[-2]). *)
(***************************************************************************)
dtv0(s) == s.ts[Len(s.ts)]

dtv1(s) == s.ts[Len(s.ts) - 1]

InWhile(s, out) == s.dti <= Len(out) /\ Len(s.ts) >= 2

PopCond(s, out) == InWhile(s, out) /\ dtv1(s)[1] <= out[s.dti]

ExactCond(s, out) ==
    /\ InWhile(s, out)
    /\ ~(dtv1(s)[1] <= out[s.dti])
    /\ dtv0(s)[1] = out[s.dti]

InterpCond(s, out) ==
    /\ InWhile(s, out)
    /\ ~(dtv1(s)[1] <= out[s.dti])
    /\ dtv0(s)[1] # out[s.dti]
    /\ dtv0(s)[1] < out[s.dti] /\ dtv1(s)[1] > out[s.dti]

ZeroCond(s, out) ==
    /\ InWhile(s, out)
    /\ ~(dtv1(s)[1] <= out[s.dti])
    /\ dtv0(s)[1] # out[s.dti]
    /\ ~(dtv0(s)[1] < out[s.dti] /\ dtv1(s)[1] > out[s.dti])
    /\ dtv0(s)[1] > out[s.dti]

LastCond(s, out) == s.dti <= Len(out) /\ Len(s.ts) = 1

EmptyCond(s, out) == s.dti <= Len(out) /\ Len(s.ts) = 0

DoPop(s) == [s EXCEPT !.ts = Pop(s.ts)]

Emit(s, b) == [s EXCEPT !.conf_ts = Append(s.conf_ts, b), !.dti = s.dti + 1]

\* Mutant: the value of ts[-2] is taken on an exact hit.
DoExactNext(s) == Emit(s, dtv1(s)[2])

DoExact(s) == Emit(s, dtv0(s)[2])

DoInterp(s, out) ==
    Emit(s, lin_interp(out[s.dti], dtv0(s)[1], dtv1(s)[1], dtv0(s)[2], dtv1(s)[2]))

\* Mutant: the first sample's value is held before the data starts.
DoZeroHold(s) == Emit(s, dtv0(s)[2])

DoZero(s) == Emit(s, Zero)

\* Mutant: the last sample is not popped, so its value is held.
DoLastKeep(s) == Emit(s, dtv0(s)[2])

DoLast(s) == [Emit(s, dtv0(s)[2]) EXCEPT !.ts = Pop(s.ts)]

\* Mutant: nothing is appended once the source is exhausted.
DoEmptySkip(s) == [s EXCEPT !.dti = s.dti + 1]

DoEmpty(s) == Emit(s, Zero)

ct_step(s, out) ==
    CASE PopCond(s, out) -> DoPop(s)
      [] ExactCond(s, out) -> DoExact(s)
      [] InterpCond(s, out) -> DoInterp(s, out)
      [] ZeroCond(s, out) -> DoZero(s)
      [] LastCond(s, out) -> DoLast(s)
      [] EmptyCond(s, out) -> DoEmpty(s)

RECURSIVE ct_run(_, _)
ct_run(s, out) ==
    The({IF x.dti > Len(out) THEN x ELSE ct_run(ct_step(x, out), out) : x \in {s}})

ct_begin(source) == [ts |-> Reverse(source), conf_ts |-> <<>>, dti |-> 1]

\* The list conform_ts returns.
conform_ts(source, out) ==
    The({ct_run(ct_begin(x), o).conf_ts : x \in {source}, o \in {out}})

\* What is left of the caller's list after the call.
conform_ts_left(source, out) ==
    The({ct_run(ct_begin(x), o).ts : x \in {source}, o \in {out}})

(***************************************************************************)
(* The conformer as a state machine: one action per branch of the loops.   *)
(***************************************************************************)
MaxT == 4
MaxSrcLen == 3
MaxOutLen == 3
SrcVals == {R(1), R(3)}

Times == 0..MaxT

Sources ==
    UNION {{s \in [1..n -> Times \X SrcVals] : StrictlyOrdered(s)} : n \in 0..MaxSrcLen}

Targets ==
    UNION {{o \in [1..n -> Times] : NonDecreasing(o)} : n \in 0..MaxOutLen}

cur == [ts |-> ts, conf_ts |-> conf_ts, dti |-> dti]

SetCur(s) == ts' = s.ts /\ conf_ts' = s.conf_ts /\ dti' = s.dti

InitConform ==
    /\ src \in Sources
    /\ ts = src
    /\ out_times \in Targets
    /\ conf_ts = <<>>
    /\ dti = 1
    /\ cpc = "call"
    /\ IdleClock /\ IdleRain /\ IdleRouting
    /\ IdleTSB /\ IdleOutput /\ IdleCall

CT_Reverse ==
    /\ cpc = "call"
    /\ SetCur(ct_begin(ts))
    /\ cpc' = "loop"
    /\ UNCHANGED <<xvars, out_times, src, gvars, rvars, avars>>

CT_Pop ==
    /\ cpc = "loop" /\ PopCond(cur, out_times)
    /\ SetCur(DoPop(cur))
    /\ UNCHANGED <<xvars, out_times, src, cpc, gvars, rvars, avars>>

CT_Exact ==
    /\ cpc = "loop" /\ ExactCond(cur, out_times)
    /\ SetCur(DoExact(cur))
    /\ UNCHANGED <<xvars, out_times, src, cpc, gvars, rvars, avars>>

CT_Interp ==
    /\ cpc = "loop" /\ InterpCond(cur, out_times)
    /\ SetCur(DoInterp(cur, out_times))
    /\ UNCHANGED <<xvars, out_times, src, cpc, gvars, rvars, avars>>

CT_Zero ==
    /\ cpc = "loop" /\ ZeroCond(cur, out_times)
    /\ SetCur(DoZero(cur))
    /\ UNCHANGED <<xvars, out_times, src, cpc, gvars, rvars, avars>>

CT_Last ==
    /\ cpc = "loop" /\ LastCond(cur, out_times)
    /\ SetCur(DoLast(cur))
    /\ UNCHANGED <<xvars, out_times, src, cpc, gvars, rvars, avars>>

CT_Empty ==
    /\ cpc = "loop" /\ EmptyCond(cur, out_times)
    /\ SetCur(DoEmpty(cur))
    /\ UNCHANGED <<xvars, out_times, src, cpc, gvars, rvars, avars>>

CT_Return ==
    /\ cpc = "loop" /\ dti > Len(out_times)
    /\ cpc' = "done"
    /\ UNCHANGED <<xvars, ts, out_times, conf_ts, dti, src, gvars, rvars, avars>>

NextConform ==
    \/ CT_Reverse
    \/ CT_Pop
    \/ CT_Exact
    \/ CT_Interp
    \/ CT_Zero
    \/ CT_Last
    \/ CT_Empty
    \/ CT_Return

SpecConform == InitConform /\ [][NextConform]_vars

(***************************************************************************)
(* Properties of conform_ts.                                               *)
(***************************************************************************)
SrcTimes == [k \in 1..Len(src) |-> src[k][1]]

SrcValues == [k \in 1..Len(src) |-> src[k][2]]

\* The samples still held are a suffix of the source, in reverse order.
FrontOnly == \E k \in 0..Len(src) : Reverse(ts) = SubSeq(src, k + 1, Len(src))

\* Work left in the call: it is never negative and every step lowers it.
Measure ==
    2 * (Len(out_times) + 1 - dti) + Len(ts)
        + (CASE cpc = "call" -> 2 [] cpc = "loop" -> 1 [] OTHER -> 0)

\* Some branch of the loops applies (the call is not stuck).
CanStep ==
    \/ cpc = "call"
    \/ /\ cpc = "loop"
       /\ \/ dti > Len(out_times)
          \/ PopCond(cur, out_times) \/ ExactCond(cur, out_times)
          \/ InterpCond(cur, out_times) \/ ZeroCond(cur, out_times)
          \/ LastCond(cur, out_times) \/ EmptyCond(cur, out_times)

\* C4: conform_ts terminates for every strictly ordered source (length 0 and 1
\* included) and every ordered target list (every step lowers the work left,
\* and the call is never stuck before it returns); it produces one value per
\* target time, in target order, so that the result has len(out_times) values;
\* and the scan only removes samples from the front of the source and never
\* puts one back.
C4_OnePerTarget ==
    /\ [](cpc \in {"loop", "done"} =>
            /\ Len(conf_ts) = dti - 1
            /\ Len(conf_ts) <= Len(out_times)
            /\ FrontOnly)
    /\ [](cpc = "done" => Len(conf_ts) = Len(out_times))
    /\ [](Measure >= 0 /\ (cpc = "done" \/ CanStep))
    /\ [][/\ Measure' < Measure
          /\ Len(ts') <= Len(ts)
          /\ cpc = "loop" => SubSeq(ts, 1, Len(ts')) = ts'
          /\ SubSeq(conf_ts', 1, Len(conf_ts)) = conf_ts]_vars

C4_Witness ==
    /\ cpc = "done"
    /\ Len(src) = MaxSrcLen /\ Len(out_times) = MaxOutLen
    /\ Len(ts) < Len(src)
    /\ Len(conf_ts) = MaxOutLen

AfterLast(i) == Len(src) >= 1 /\ out_times[i] > Last(src)[1]

\* C5 as stated: every target time later than the last source sample gets the
\* last sample's value.
C5_HoldLastForAll ==
    cpc = "done" =>
        \A i \in 1..Len(out_times) : AfterLast(i) => conf_ts[i] = Last(src)[2]

\* The first target position at which the scan is down to its last sample.
FirstAtEnd ==
    IF Len(src) = 1 THEN 1
    ELSE CHOOSE i \in 1..Len(out_times) :
            /\ out_times[i] >= Last(src)[1]
            /\ \A j \in 1..(i - 1) : out_times[j] < Last(src)[1]

ReachesEnd ==
    /\ Len(src) >= 1 /\ Len(out_times) >= 1
    /\ Len(src) >= 2 => \E i \in 1..Len(out_times) : out_times[i] >= Last(src)[1]

\* C5 amended: the last sample's value is returned once, for the first target
\* time at or after the last sample's time (the first target time of all when
\* the source has a single sample), and the sample is consumed by that: every
\* later target time gets 0, and the source list ends empty.
C5_LastValueOnce ==
    (cpc = "done" /\ ReachesEnd) =>
        /\ conf_ts[FirstAtEnd] = Last(src)[2]
        /\ \A j \in (FirstAtEnd + 1)..Len(out_times) : conf_ts[j] = Zero
        /\ ts = <<>>

C5_Witness ==
    /\ cpc = "done" /\ Len(src) >= 2
    /\ \E i, j \in 1..Len(out_times) :
          /\ i < j /\ AfterLast(i) /\ AfterLast(j) /\ out_times[i] < out_times[j]
          /\ conf_ts[i] = Last(src)[2] /\ conf_ts[j] = Zero

\* C6: with at least two source samples, a target time earlier than the first
\* sample yields 0, and the step that yields it removes nothing from the
\* source, which is still whole at that point.
C6_ZeroBeforeFirst ==
    /\ []((cpc \in {"loop", "done"} /\ Len(src) >= 2) =>
            \A i \in 1..Len(conf_ts) : out_times[i] < src[1][1] => conf_ts[i] = Zero)
    /\ [][(/\ cpc = "loop" /\ Len(src) >= 2
           /\ dti <= Len(out_times) /\ out_times[dti] < src[1][1])
          => /\ conf_ts' = Append(conf_ts, Zero)
             /\ ts' = ts /\ ts = Reverse(src)]_vars

C6_Witness ==
    /\ cpc = "loop" /\ Len(src) >= 2 /\ dti = 3
    /\ out_times[1] < out_times[2] /\ out_times[2] < src[1][1]
    /\ conf_ts = <<Zero, Zero>>

\* C7: conforming a strictly ordered series onto its own timestamps returns
\* its values, unchanged and in order.
C7_OwnGridIdentity ==
    (cpc = "done" /\ out_times = SrcTimes) => conf_ts = SrcValues

C7_Witness ==
    /\ cpc = "done" /\ out_times = SrcTimes /\ Len(src) = MaxSrcLen
    /\ conf_ts = SrcValues
    /\ \E k \in 1..(Len(src) - 1) : src[k][2] # src[k + 1][2]

Bracket(i, k) ==
    /\ k \in 1..(Len(src) - 1)
    /\ src[k][1] < out_times[i] /\ out_times[i] < src[k + 1][1]

\* y0 + (y1 - y0) * (t - t0) / (t1 - t0)
Interpolated(i, k) ==
    RAdd(src[k][2],
         RDiv(RMul(RSub(src[k + 1][2], src[k][2]), R(out_times[i] - src[k][1])),
              R(src[k + 1][1] - src[k][1])))

\* C8: a target time strictly between two consecutive source samples gets the
\* linear interpolation between exactly those two samples.
C8_LinearBetween ==
    cpc \in {"loop", "done"} =>
        \A i \in 1..Len(conf_ts) : \A k \in 1..(Len(src) - 1) :
            Bracket(i, k) => conf_ts[i] = Interpolated(i, k)

C8_Witness ==
    /\ cpc = "done" /\ Len(src) = MaxSrcLen
    /\ \E i \in 1..Len(conf_ts) :
          /\ Bracket(i, 2)
          /\ src[2][2] # src[3][2]
          /\ src[1][2] # src[2][2]
          /\ conf_ts[i] = Interpolated(i, 2)
          /\ conf_ts[i] # src[2][2] /\ conf_ts[i] # src[3][2]

(***************************************************************************)
(* Rainfall: load_and_validate_ts and conform_rainfall.                    *)
(* A gage is [Series, TimeInterval, RainFormat]; Series is the list of     *)
(* <<minute, value>> samples of its time series, TimeInterval is minutes.  *)
(***************************************************************************)
\* _rain_conv_factor for the METRIC unit system: millimetres to metres.
rain_conv_factor == <<1, 1000>>

\* The instants start, start + step, ... not later than end.
clock(start, end, step) ==
    IF start > end THEN <<>>
    ELSE [k \in 1..((end - start) \div step + 1) |-> start + (k - 1) * step]

\* Mutant: equal times pass the order test (dt >= old_dt).
load_and_validate_ts_nonstrict(data, expected_overlap, check_ordered, s_t, e_t) ==
    IF Len(data) < 3 THEN "too_short"
    ELSE IF expected_overlap = "partial" /\ (s_t > Last(data)[1] \/ e_t < data[1][1])
        THEN "no_overlap"
    ELSE IF expected_overlap = "full" /\ ~(data[1][1] <= s_t /\ Last(data)[1] >= e_t)
        THEN "no_full_overlap"
    ELSE IF check_ordered /\ ~(\A k \in 1..(Len(data) - 1) : data[k][1] <= data[k + 1][1])
        THEN "out_of_order"
    ELSE "ok"

\* "ok", or the validation error that is raised.
load_and_validate_ts(data, expected_overlap, check_ordered, s_t, e_t) ==
    IF Len(data) < 3 THEN "too_short"
    ELSE IF expected_overlap = "partial" /\ (s_t > Last(data)[1] \/ e_t < data[1][1])
        THEN "no_overlap"
    ELSE IF expected_overlap = "full" /\ ~(data[1][1] <= s_t /\ Last(data)[1] >= e_t)
        THEN "no_full_overlap"
    ELSE IF check_ordered /\ ~StrictlyOrdered(data) THEN "out_of_order"
    ELSE "ok"

\* CUMULATIVE: every sample is the running total at its time.
cum_cumulative(data) ==
    [k \in 1..Len(data) |-> <<data[k][1], RMul(data[k][2], rain_conv_factor)>>]

\* The depth one INTENSITY or VOLUME sample adds, in metres.
\* Mutant: the intensity is not scaled by the recording interval.
rain_increment_per_hour(fmt, value, precip_step_min) == RMul(value, rain_conv_factor)

rain_increment(fmt, value, precip_step_min) ==
    IF fmt = "INTENSITY"
    THEN RMul(RDiv(RMul(value, R(precip_step_min)), R(60)), rain_conv_factor)
    ELSE RMul(value, rain_conv_factor)

\* Mutant: only a gap of more than two recording intervals counts.
gap_before_two(dt, prev_dt, precip_step_min) == dt - prev_dt > 2 * precip_step_min

\* dt is more than 1.5 recording intervals after prev_dt (zeros were removed).
gap_before(dt, prev_dt, precip_step_min) == 2 * (dt - prev_dt) > 3 * precip_step_min

\* INTENSITY and VOLUME: the loop over the samples from sample k on.
RECURSIVE cum_scan(_, _, _, _, _, _, _)
cum_scan(fmt, data, precip_step_min, k, prev_dt, cum_rain, acc) ==
    IF k > Len(data) THEN acc
    ELSE The({The({cum_scan(fmt, data, precip_step_min, k + 1, dt, cum1,
                            Append(flat, <<dt + precip_step_min, cum1>>)) :
                      flat \in {IF gap_before(dt, prev_dt, precip_step_min)
                                THEN Append(a, <<dt, c>>) ELSE a},
                      cum1 \in {RAdd(c, rain_increment(fmt, data[k][2],
                                                       precip_step_min))}}) :
                 dt \in {data[k][1]}, c \in {cum_rain}, a \in {acc}})

\* cum_precip_list: the synthetic cumulative series of a gage.
cum_precip_list(gage) ==
    The({CASE gage.RainFormat = "CUMULATIVE" -> cum_cumulative(data)
           [] gage.RainFormat \in {"INTENSITY", "VOLUME"} ->
                 cum_scan(gage.RainFormat, data, gage.TimeInterval, 1, data[1][1],
                          Zero, <<<<data[1][1], Zero>>>>)
           [] OTHER -> <<>> : data \in {gage.Series}})

\* The simulation grid plus one trailing step.
\* Mutant: the trailing step is left out.
rain_out_times_short(times, step) == times

rain_out_times(times, step) == Append(times, Last(times) + step)

\* Mutant: the difference is not clamped.
vol_step_unclamped(a, b) == RSub(b, a)

vol_step(a, b) == RMax(RSub(b, a), Zero)

\* Cumulative to incremental volume by forward differences.
vol_precip(norm_precip) ==
    The({[k \in 1..(Len(c) - 1) |-> vol_step(c[k], c[k + 1])] : c \in {norm_precip}})

\* [status |-> "ok", vol |-> the list returned] or [status |-> the error raised].
conform_rainfall(gage, times, step, s_t, e_t) ==
    The({IF v # "ok" THEN [status |-> v, vol |-> <<>>]
         ELSE [status |-> "ok",
               vol |-> vol_precip(conform_ts(cum_precip_list(gage),
                                             rain_out_times(times, step)))] :
            v \in {load_and_validate_ts(gage.Series, "partial", TRUE, s_t, e_t)}})

(***************************************************************************)
(* One physical rain event recorded three ways at the same interval:       *)
(* depth vols[k] falls on [t0 + (k-1)*step, t0 + k*step).                  *)
(***************************************************************************)
MaxIntervals == 4
MaxInstants == 3
SimStarts == {0, 3}
RainDepths == {0, 3}
RainIntervals == {2}
CalcSteps == {1, 3}
Formats == {"CUMULATIVE", "INTENSITY", "VOLUME"}

RECURSIVE SumTo(_, _)
SumTo(vols, k) == IF k = 0 THEN 0 ELSE vols[k] + SumTo(vols, k - 1)

\* The kept positions, in order, as a sequence.
RECURSIVE KeptSeq(_, _, _)
KeptSeq(keep, k, n) ==
    IF k > n THEN <<>>
    ELSE IF k \in keep THEN <<k>> \o KeptSeq(keep, k + 1, n)
    ELSE KeptSeq(keep, k + 1, n)

EventGage(fmt, t0, step, vols, keep) ==
    LET n == Len(vols)
        ks == KeptSeq(keep, 1, n)
        series ==
            CASE fmt = "CUMULATIVE" ->
                    [k \in 1..(n + 1) |-> <<t0 + (k - 1) * step, R(SumTo(vols, k - 1))>>]
              [] fmt = "VOLUME" ->
                    [j \in 1..Len(ks) |-> <<t0 + (ks[j] - 1) * step, R(vols[ks[j]])>>]
              [] fmt = "INTENSITY" ->
                    [j \in 1..Len(ks) |->
                        <<t0 + (ks[j] - 1) * step, RDiv(R(vols[ks[j]] * 60), R(step))>>]
    IN  [Series |-> series, TimeInterval |-> step, RainFormat |-> fmt]

\* Samples of zero depth may be left out of the VOLUME and INTENSITY series.
Keeps(vols) ==
    {keep \in SUBSET (1..Len(vols)) : \A k \in 1..Len(vols) : vols[k] # 0 => k \in keep}

InitRain ==
    /\ IdleConform /\ IdleRouting
    /\ IdleTSB /\ IdleOutput /\ IdleCall
    /\ calc_step_min \in CalcSteps
    /\ calc_step_sec = <<calc_step_min * 60>>
    /\ start_t \in SimStarts
    /\ \E n \in 1..MaxInstants : end_t = start_t + (n - 1) * calc_step_min
    /\ all_t = clock(start_t, end_t, calc_step_min)
    /\ \E n \in 3..MaxIntervals : \E vols \in [1..n -> RainDepths] :
       \E keep \in Keeps(vols) : \E step \in RainIntervals : \E t0 \in {2} :
          gages = [f \in Formats |-> EventGage(f, t0, step, vols, keep)]
    /\ conformed_rain = <<>>
    /\ rpc = "run"

\* AMM_run, lines 494-495: the gage's rainfall is conformed on first use.
ConformGage(name) ==
    /\ rpc = "run"
    /\ name \in DOMAIN gages
    /\ name \notin DOMAIN conformed_rain
    /\ \E r \in {conform_rainfall(gages[name], all_t, calc_step_min, start_t, end_t)} :
           IF r.status = "ok"
           THEN /\ conformed_rain' = (name :> r.vol) @@ conformed_rain
                /\ rpc' = rpc
           ELSE /\ rpc' = r.status
                /\ conformed_rain' = conformed_rain
    /\ UNCHANGED <<xvars, cvars, gvars, gages, avars>>

NextRain == \E name \in Formats : ConformGage(name)

SpecRain == InitRain /\ [][NextRain]_vars

(***************************************************************************)
(* Properties of conform_rainfall.                                         *)
(***************************************************************************)
\* C9: a CUMULATIVE, an INTENSITY and a VOLUME series of the same rain event
\* at the same recording interval give the same incremental volume at every
\* simulation step (for every gage conform_rainfall returns a result for).
C9_SameVolumes ==
    \A f \in DOMAIN conformed_rain : \A g \in DOMAIN conformed_rain :
        conformed_rain[f] = conformed_rain[g]

C9_Witness ==
    /\ DOMAIN conformed_rain = Formats
    /\ Len(all_t) = MaxInstants
    /\ Len(gages["VOLUME"].Series) + 1 < Len(gages["CUMULATIVE"].Series)
    /\ \E i, j \in 1..Len(all_t) :
          /\ conformed_rain["VOLUME"][i] # Zero
          /\ conformed_rain["VOLUME"][j] # conformed_rain["VOLUME"][i]
    /\ conformed_rain["INTENSITY"] = conformed_rain["CUMULATIVE"]

\* The conformed cumulative series at start_t + (k-1) * calc_step_min,
\* k = 1 .. len(_all_t) + 1.
Conformed(name) ==
    conform_ts(cum_precip_list(gages[name]),
               [k \in 1..(Len(all_t) + 1) |-> start_t + (k - 1) * calc_step_min])

\* C10: conform_rainfall returns one value per simulation instant; value i is
\* max(0, C(t_i + step) - C(t_i)) of the conformed cumulative series C; so no
\* returned volume is negative, also when the source ends before the horizon.
C10_ClampedDifferences ==
    \A name \in DOMAIN conformed_rain :
        LET C == Conformed(name)
            vol == conformed_rain[name]
        IN  /\ Len(vol) = Len(all_t)
            /\ \A i \in 1..Len(all_t) :
                  /\ all_t[i] = start_t + (i - 1) * calc_step_min
                  /\ RLe(Zero, vol[i])
                  /\ vol[i] = (IF RLt(C[i], C[i + 1]) THEN RSub(C[i + 1], C[i]) ELSE Zero)

C10_Witness ==
    /\ "VOLUME" \in DOMAIN conformed_rain
    /\ Len(all_t) = MaxInstants
    /\ Last(cum_precip_list(gages["VOLUME"]))[1] < end_t
    /\ LET C == Conformed("VOLUME")
       IN  \E i \in 1..Len(all_t) :
              RLt(C[i + 1], C[i]) /\ conformed_rain["VOLUME"][i] = Zero
    /\ \E i \in 1..Len(all_t) : conformed_rain["VOLUME"][i] # Zero

\* Samples k and k + 1 of the gage are more than 1.5 recording intervals apart.
GapAfter(gage, k) ==
    2 * (gage.Series[k + 1][1] - gage.Series[k][1]) > 3 * gage.TimeInterval

\* C20: for a VOLUME or INTENSITY gage, where two consecutive samples are
\* more than 1.5 recording intervals apart the synthetic cumulative series
\* has two consecutive points of the same value at (earlier sample time +
\* interval) and at the later sample time, and every simulation step lying
\* wholly between them gets zero rainfall.
C20_FlatAcrossGap ==
    \A name \in DOMAIN conformed_rain \cap {"VOLUME", "INTENSITY"} :
        LET gage == gages[name]
            cum == cum_precip_list(gage)
        IN  \A k \in 1..(Len(gage.Series) - 1) :
               GapAfter(gage, k) =>
                  LET from == gage.Series[k][1] + gage.TimeInterval
                      to == gage.Series[k + 1][1]
                  IN  /\ \E j \in 1..(Len(cum) - 1) :
                            /\ cum[j][1] = from /\ cum[j + 1][1] = to
                            /\ cum[j][2] = cum[j + 1][2]
                      /\ \A i \in DOMAIN all_t :
                            (from <= all_t[i] /\ all_t[i] + calc_step_min <= to) =>
                               conformed_rain[name][i] = Zero

\* A step inside a gap, between two steps with rain, has got zero rainfall.
C20_Witness ==
    /\ "VOLUME" \in DOMAIN conformed_rain
    /\ \E k \in 1..(Len(gages["VOLUME"].Series) - 1) :
          /\ GapAfter(gages["VOLUME"], k)
          /\ RLt(Zero, gages["VOLUME"].Series[k][2])
          /\ RLt(Zero, gages["VOLUME"].Series[k + 1][2])
          /\ \E i \in DOMAIN all_t :
                /\ gages["VOLUME"].Series[k][1] + gages["VOLUME"].TimeInterval <= all_t[i]
                /\ all_t[i] + calc_step_min <= gages["VOLUME"].Series[k + 1][1]
                /\ conformed_rain["VOLUME"][i] = Zero
    /\ \E i \in DOMAIN all_t : conformed_rain["VOLUME"][i] # Zero

(***************************************************************************)
(* Dates.  A time is a whole number of minutes since 00:00 on 1 January of *)
(* EpochYear; Date(t) is its calendar year, month and day.                 *)
(***************************************************************************)
EpochYear == 2023

IsLeapYear(y) == (y % 4 = 0 /\ y % 100 # 0) \/ y % 400 = 0

CalendarDays(y, m) ==
    CASE m \in {1, 3, 5, 7, 8, 10, 12} -> 31
      [] m \in {4, 6, 9, 11} -> 30
      [] OTHER -> IF IsLeapYear(y) THEN 29 ELSE 28

DaysInYear(y) == IF IsLeapYear(y) THEN 366 ELSE 365

\* d is the day of year y, counted from 0, on or after the first of month m.
RECURSIVE MonthDay(_, _, _)
MonthDay(y, m, d) ==
    IF d < CalendarDays(y, m) THEN [year |-> y, month |-> m, day |-> d + 1]
    ELSE MonthDay(y, m + 1, d - CalendarDays(y, m))

RECURSIVE YearDay(_, _)
YearDay(y, d) ==
    IF d < 0 THEN YearDay(y - 1, d + DaysInYear(y - 1))
    ELSE IF d >= DaysInYear(y) THEN YearDay(y + 1, d - DaysInYear(y))
    ELSE MonthDay(y, 1, d)

Date(t) == YearDay(EpochYear, t \div 1440)

(***************************************************************************)
(* interp_seasonal_temp and precalc_temps.                                 *)
(***************************************************************************)
\* _tempDict: average temperature of each month.
tempDict ==
    <<Q(234, 10), Q(271, 10), R(39), Q(499, 10), Q(613, 10), Q(703, 10),
      Q(731, 10), Q(715, 10), Q(657, 10), Q(534, 10), Q(403, 10), Q(301, 10)>>

\* The DaysInMonth table of interp_seasonal_temp.
DaysInMonth(year, m) ==
    CASE m = 2 -> 28 + (IF year % 4 = 0 THEN 1 ELSE 0)
      [] m \in {3, 5, 7, 8, 10, 12} -> 31
      [] OTHER -> 30

HalfUp(n) == (n + 1) \div 2

HalfDown(n) == n \div 2

\* Line 1681: middleDay = math.ceil(DaysInMonth[month] / 2)
middleDay(year, month) == HalfUp(DaysInMonth(year, month))

seasonal_temp(year, month, day) ==
    LET startMonthKey ==
            IF day < middleDay(year, month) THEN (IF month # 1 THEN month - 1 ELSE 12)
            ELSE month
        endMonthKey ==
            IF day < middleDay(year, month) THEN month
            ELSE (IF month # 12 THEN month + 1 ELSE 1)
        totalDays == HalfDown(DaysInMonth(year, startMonthKey))
                        + HalfUp(DaysInMonth(year, endMonthKey))
        daysBetween ==
            IF startMonthKey = month THEN day - HalfUp(DaysInMonth(year, month))
            ELSE day + HalfDown(DaysInMonth(year, startMonthKey))
    IN  The({RAdd(RMul(percentVal, tempDict[endMonthKey]),
                  RMul(RSub(R(1), percentVal), tempDict[startMonthKey])) :
                percentVal \in {Q(daysBetween, totalDays)}})

interp_seasonal_temp(t) ==
    The({seasonal_temp(dt.year, dt.month, dt.day) : dt \in {Date(t)}})

\* The maxMA instants before the simulation start.
pre_times(maxMA, s_t, step) ==
    [st \in 1..maxMA |-> (s_t - maxMA * step) + (st - 1) * step]

\* precalc_temps: [status, temps].  maxMA = -1 stands for None (the horizon).
precalc_temps(maxMA, use_ts, temp_data, times, s_t, e_t, step) ==
    The({IF use_ts
         THEN The({IF v # "ok" THEN [status |-> v, temps |-> <<>>]
                   ELSE [status |-> "ok", temps |-> conform_ts(temp_data, outs)] :
                      v \in {load_and_validate_ts(temp_data, "full", maxMA = -1,
                                                  s_t, e_t)}})
         ELSE [status |-> "ok",
               temps |-> [i \in 1..Len(outs) |-> interp_seasonal_temp(outs[i])]] :
            outs \in {IF maxMA = -1 THEN times ELSE pre_times(maxMA, s_t, step)}})

(***************************************************************************)
(* AMMSub: the subcatchment and its recursion.                             *)
(***************************************************************************)
\* METRIC system, flow in CMS.
Q_conv_factor == R(1)

SHCF_conv_factor == R(10)

area_conv_factor == R(10000)

\* Mutant: a half-life of exactly zero passes (HHL < 0 instead of HHL <= 0).
half_life_raises_negative_only(half_life, capture) ==
    RLt(half_life, Zero) /\ RLt(Zero, capture)

\* Lines 273, 277, 281, 315, 319, 323: half_life <= 0 and capture > 0
half_life_raises(half_life, capture) == RLe(half_life, Zero) /\ RLt(Zero, capture)

\* The tests of AMMSub.__init__ in their order: the field each raise is
\* about, with the condition under which it is raised.
AMMSub_checks(entity, nodes, all_gages) ==
    LET neg(f) == <<RLt(entity[f], Zero), f>>
    IN  <<<<entity.Name = "", "Name">>,
          <<entity.Outlet \notin nodes, "Outlet">>,
          <<RLe(entity.Area, Zero), "Area">>,
          <<entity.RainGage \notin DOMAIN all_gages, "RainGage">>,
          <<IF entity.RainGage \in DOMAIN all_gages
            THEN all_gages[entity.RainGage].DataSource # "TIMESERIES" ELSE FALSE,
            "DataSource">>,
          neg("RDFast"), neg("RDMed"), neg("RDSlow"),
          neg("HtRBase"), neg("SpClRB"), neg("FlClRB"),
          neg("PATFast"), neg("PATMed"), neg("PATSlow"), neg("PATBase"),
          <<half_life_raises(entity.HHLFast, entity.RDFast), "HHLFast">>,
          <<half_life_raises(entity.HHLMed, entity.RDMed), "HHLMed">>,
          <<half_life_raises(entity.HHLSlow, entity.RDSlow), "HHLSlow">>,
          <<half_life_raises(entity.HHLBase,
                             RMax(RMax(entity.HtRBase, entity.SpClRB), entity.FlClRB)),
            "HHLBase">>,
          neg("RW0Fast"), neg("RW0Med"), neg("RW0Slow"),
          <<half_life_raises(entity.AMHLFast, entity.RDFast), "AMHLFast">>,
          <<half_life_raises(entity.AMHLMed, entity.RDMed), "AMHLMed">>,
          <<half_life_raises(entity.AMHLSlow, entity.RDSlow), "AMHLSlow">>,
          neg("SATFast"), neg("SATMed"), neg("SATSlow"), neg("SATBase"),
          neg("HtSHCFFast"), neg("HtSHCFMed"), neg("HtSHCFSlow"),
          neg("SpClSHCFF"), neg("SpClSHCFM"), neg("SpClSHCFS"),
          neg("FlClSHCFF"), neg("FlClSHCFM"), neg("FlClSHCFS"),
          <<RLe(entity.HotTemp, entity.ColdTemp), "ColdTemp">>>>

\* The field the exception raised by AMMSub(entity) is about, or "" if the
\* construction succeeds.
AMMSub_raises(entity, nodes, all_gages) ==
    The({IF \E k \in DOMAIN checks : checks[k][1]
         THEN checks[CHOOSE k \in DOMAIN checks :
                        checks[k][1] /\ \A j \in 1..(k - 1) : ~checks[j][1]][2]
         ELSE "" : checks \in {AMMSub_checks(entity, nodes, all_gages)}})

\* The attribute values of an entity are rationals; step is _calc_step_min.
AMMSub(entity, step) ==
    LET pct(x) == RDiv(x, R(100))
        hours_to_steps(x) == RDiv(RMul(x, R(60)), R(step))
        days_to_steps(x) == RDiv(RMul(x, R(1440)), R(step))
        shcf(x) == RMul(x, SHCF_conv_factor)
    IN  [name |-> entity.Name,
         outlet |-> entity.Outlet,
         area |-> RMul(entity.Area, area_conv_factor),
         gage |-> entity.RainGage,
         RDFast |-> pct(entity.RDFast),
         RDMed |-> pct(entity.RDMed),
         RDSlow |-> pct(entity.RDSlow),
         HotRBase |-> pct(entity.HtRBase),
         SpringColdRBase |-> pct(entity.SpClRB),
         FallColdRBase |-> pct(entity.FlClRB),
         PATFast |-> hours_to_steps(entity.PATFast),
         PATMed |-> hours_to_steps(entity.PATMed),
         PATSlow |-> hours_to_steps(entity.PATSlow),
         PATBase |-> hours_to_steps(entity.PATBase),
         HHLFast |-> RMul(entity.HHLFast, R(3600)),
         HHLMed |-> RMul(entity.HHLMed, R(3600)),
         HHLSlow |-> RMul(entity.HHLSlow, R(3600)),
         HHLBase |-> RMul(entity.HHLBase, R(3600)),
         RW0Fast |-> pct(entity.RW0Fast),
         RW0Med |-> pct(entity.RW0Med),
         RW0Slow |-> pct(entity.RW0Slow),
         AMHLFast |-> RMul(entity.AMHLFast, R(86400)),
         AMHLMed |-> RMul(entity.AMHLMed, R(86400)),
         AMHLSlow |-> RMul(entity.AMHLSlow, R(86400)),
         SATFast |-> days_to_steps(entity.SATFast),
         SATMed |-> days_to_steps(entity.SATMed),
         SATSlow |-> days_to_steps(entity.SATSlow),
         SATBase |-> days_to_steps(entity.SATBase),
         HotSHCFFast |-> shcf(entity.HtSHCFFast),
         HotSHCFMed |-> shcf(entity.HtSHCFMed),
         HotSHCFSlow |-> shcf(entity.HtSHCFSlow),
         SpringColdSHCFFast |-> shcf(entity.SpClSHCFF),
         SpringColdSHCFMed |-> shcf(entity.SpClSHCFM),
         SpringColdSHCFSlow |-> shcf(entity.SpClSHCFS),
         FallColdSHCFFast |-> shcf(entity.FlClSHCFF),
         FallColdSHCFMed |-> shcf(entity.FlClSHCFM),
         FallColdSHCFSlow |-> shcf(entity.FlClSHCFS),
         HotTemp |-> entity.HotTemp,
         ColdTemp |-> entity.ColdTemp]

\* Mutant: the rain gage is left out of the twin fingerprint.
all_params_no_gage(sub) ==
    <<sub.RDFast, sub.RDMed, sub.RDSlow,
      sub.PATFast, sub.PATMed, sub.PATSlow, sub.PATBase,
      sub.HHLFast, sub.HHLMed, sub.HHLSlow, sub.HHLBase,
      sub.RW0Fast, sub.RW0Med, sub.RW0Slow,
      sub.AMHLFast, sub.AMHLMed, sub.AMHLSlow,
      sub.SATFast, sub.SATMed, sub.SATSlow, sub.SATBase,
      sub.HotSHCFFast, sub.HotSHCFMed, sub.HotSHCFSlow, sub.HotRBase,
      sub.SpringColdSHCFFast, sub.SpringColdSHCFMed, sub.SpringColdSHCFSlow,
      sub.SpringColdRBase,
      sub.FallColdSHCFFast, sub.FallColdSHCFMed, sub.FallColdSHCFSlow,
      sub.FallColdRBase,
      sub.HotTemp, sub.ColdTemp>>

\* self.all_params: what makes two subcatchments twins.
all_params(sub) ==
    <<sub.gage,
      sub.RDFast, sub.RDMed, sub.RDSlow,
      sub.PATFast, sub.PATMed, sub.PATSlow, sub.PATBase,
      sub.HHLFast, sub.HHLMed, sub.HHLSlow, sub.HHLBase,
      sub.RW0Fast, sub.RW0Med, sub.RW0Slow,
      sub.AMHLFast, sub.AMHLMed, sub.AMHLSlow,
      sub.SATFast, sub.SATMed, sub.SATSlow, sub.SATBase,
      sub.HotSHCFFast, sub.HotSHCFMed, sub.HotSHCFSlow, sub.HotRBase,
      sub.SpringColdSHCFFast, sub.SpringColdSHCFMed, sub.SpringColdSHCFSlow,
      sub.SpringColdRBase,
      sub.FallColdSHCFFast, sub.FallColdSHCFMed, sub.FallColdSHCFSlow,
      sub.FallColdRBase,
      sub.HotTemp, sub.ColdTemp>>

\* _meas_names, in the order of the dictionary.
meas_names ==
    <<"Runoff_Total", "Runoff_Fast", "Runoff_Med", "Runoff_Slow", "Runoff_Base",
      "PC_Total", "PC_Fast", "PC_Med", "PC_Slow", "PC_Base",
      "SHCF_Fast", "SHCF_Med", "SHCF_Slow", "Rain", "Temps">>

MeasNames == {meas_names[k] : k \in 1..Len(meas_names)}

RunoffNames ==
    {"Runoff_Total", "Runoff_Fast", "Runoff_Med", "Runoff_Slow", "Runoff_Base"}

\* 0.5 ** x for the exponents the model's half-lives produce (whole numbers).
HalfPow(x) == CASE x[2] = 1 /\ x[1] >= 0 -> <<1, 2 ^ x[1]>>

\* step_sec is _calc_step_sec.
calc_decay_constant(HL, step_sec) ==
    IF HL = Zero THEN Q(99, 100) ELSE HalfPow(RDiv(R(step_sec), HL))

\* math.log at the decay factors of the model, to two or three digits.
log(x) ==
    CASE x = Q(1, 2) -> Q(-7, 10)
      [] x = Q(1, 4) -> Q(-7, 5)
      [] x = Q(99, 100) -> Q(-1, 100)

RECURSIVE Pow11(_)
Pow11(n) == IF n = 0 THEN R(1) ELSE IF n > 0 THEN RMul(R(11), Pow11(n - 1))
            ELSE RDiv(Pow11(n + 1), R(11))

\* math.exp: 11 ** (z / 2.3982), exact where z / 2.3982 is whole
\* (e ** 2.3982 = 11.000) and linear between those points.
exp(z) ==
    The({The({RMul(Pow11(n), RAdd(R(1), RMul(R(10), RSub(w, R(n))))) :
                 n \in {RFloor(w)}}) : w \in {RDiv(z, Q(23982, 10000))}})

\* Mutant: the average is taken over the whole steps only.
MA_whole_only(previousData, ma_lag) ==
    The({RDiv(RSum(SubSeq(pd, Len(pd) - whole_steps + 1, Len(pd))), R(whole_steps)) :
            pd \in {previousData}, whole_steps \in {RFloor(RAdd(ma_lag, R(1)))}})

\* The moving average of the newest ma_lag + 1 samples of previousData.
MA(previousData, ma_lag) ==
    The({The({LET part_steps == RSub(real_steps, R(whole_steps))
                  whole == IF whole_steps >= n THEN pd
                           ELSE SubSeq(pd, n - whole_steps + 1, n)
              IN  RAdd(RDiv(RSum(whole), real_steps),
                       RDiv(RMul(pd[n - whole_steps], part_steps), real_steps)) :
                 whole_steps \in {RFloor(real_steps)}, n \in {Len(pd)}}) :
            pd \in {previousData}, real_steps \in {RAdd(ma_lag, R(1))}})

\* The attributes AMM_run derives before the recursion.
derived(sub, step_sec) ==
    [SFFast |-> calc_decay_constant(sub.HHLFast, step_sec),
     SFMed |-> calc_decay_constant(sub.HHLMed, step_sec),
     SFSlow |-> calc_decay_constant(sub.HHLSlow, step_sec),
     SFBase |-> calc_decay_constant(sub.HHLBase, step_sec),
     AMRFFast |-> calc_decay_constant(sub.AMHLFast, step_sec),
     AMRFMed |-> calc_decay_constant(sub.AMHLMed, step_sec),
     AMRFSlow |-> calc_decay_constant(sub.AMHLSlow, step_sec),
     x0 |-> RDiv(RAdd(sub.ColdTemp, sub.HotTemp), R(2)),
     k |-> RDiv(Q(47964, 10000), RSub(sub.ColdTemp, sub.HotTemp)),
     maxMA |-> RFloor(RMax(RMax(RMax(sub.PATFast, sub.PATMed),
                                RMax(sub.PATSlow, sub.PATBase)),
                           RMax(RMax(sub.SATFast, sub.SATMed),
                                RMax(sub.SATSlow, sub.SATBase)))) + 1]

\* Mutant: the first history holds maxMA samples, one fewer than the code takes.
first_state_short(sub, d, precip, temps) ==
    [RWPrevF |-> sub.RW0Fast, RWPrevM |-> sub.RW0Med, RWPrevS |-> sub.RW0Slow,
     RPrevB |-> Zero,
     QPrevF |-> Zero, QPrevM |-> Zero, QPrevS |-> Zero, QPrevB |-> Zero,
     curIndex |-> 0,
     curavgIndex |-> d.maxMA,
     previousPrecips |-> SubSeq(precip, 1, d.maxMA),
     previousTemps |-> SubSeq(temps, 1, d.maxMA)]

\* The state of the recursion before the first step.
first_state(sub, d, precip, temps) ==
    [RWPrevF |-> sub.RW0Fast, RWPrevM |-> sub.RW0Med, RWPrevS |-> sub.RW0Slow,
     RPrevB |-> Zero,
     QPrevF |-> Zero, QPrevM |-> Zero, QPrevS |-> Zero, QPrevB |-> Zero,
     curIndex |-> 0,
     curavgIndex |-> d.maxMA,
     previousPrecips |-> SubSeq(precip, 1, d.maxMA + 1),
     previousTemps |-> SubSeq(temps, 1, d.maxMA + 1)]

\* Jan 1 to Jul 15: the spring cold parameters apply.
is_spring(t) == Date(t).month < 7 \/ (Date(t).month = 7 /\ Date(t).day <= 15)

\* Mutant: the offset is 10/12 L instead of 11/12 L.
seasonal_ten_twelfths(cold, hot, k, x0, temp) ==
    The({RMax(RSub(RAdd(RDiv(L, RAdd(R(1), exp(RMul(RMul(R(-1), k), RSub(temp, x0))))),
                        cold),
                   RMul(Q(10, 12), L)),
              Zero) : L \in {RMul(Q(12, 10), RSub(cold, hot))}})

\* max(L / (1 + exp(-k (T - x0))) + cold - 11/12 L, 0) with L = 1.2 (cold - hot)
seasonal(cold, hot, k, x0, temp) ==
    The({RMax(RSub(RAdd(RDiv(L, RAdd(R(1), exp(RMul(RMul(R(-1), k), RSub(temp, x0))))),
                        cold),
                   RMul(Q(11, 12), L)),
              Zero) : L \in {RMul(Q(12, 10), RSub(cold, hot))}})

\* RW (level 2)
wet_capture(AMRF, SHCFt, precip, RWPrev) ==
    RAdd(RMul(RMul(RDiv(RSub(AMRF, R(1)), log(AMRF)), SHCFt), precip),
         RMul(AMRF, RWPrev))

\* Mutant: the previous flow is carried over with the weight 1 - SF.
flow_complement(area, SF, step_sec, capture, precip, QPrev) ==
    RAdd(RMul(RMul(RDiv(RMul(area, RSub(R(1), SF)), R(step_sec)), capture), precip),
         RMul(RSub(R(1), SF), QPrev))

\* Q (level 1): area (1 - SF) / step_sec * capture * precip + SF * QPrev
flow(area, SF, step_sec, capture, precip, QPrev) ==
    RAdd(RMul(RMul(RDiv(RMul(area, RSub(R(1), SF)), R(step_sec)), capture), precip),
         RMul(SF, QPrev))

\* The moving averages of rain (P) and temperature (T) at the current step.
averages(sub, st) ==
    [PFast |-> MA(st.previousPrecips, sub.PATFast),
     PMed |-> MA(st.previousPrecips, sub.PATMed),
     PSlow |-> MA(st.previousPrecips, sub.PATSlow),
     PBase |-> MA(st.previousPrecips, sub.PATBase),
     TFast |-> MA(st.previousTemps, sub.SATFast),
     TMed |-> MA(st.previousTemps, sub.SATMed),
     TSlow |-> MA(st.previousTemps, sub.SATSlow),
     TBase |-> MA(st.previousTemps, sub.SATBase)]

\* SHCF (level 3) and the base capture, with the cold parameters of the season.
heat_factors(sub, d, m, spring) ==
    [Fast |-> seasonal(IF spring THEN sub.SpringColdSHCFFast ELSE sub.FallColdSHCFFast,
                       sub.HotSHCFFast, d.k, d.x0, m.TFast),
     Med |-> seasonal(IF spring THEN sub.SpringColdSHCFMed ELSE sub.FallColdSHCFMed,
                      sub.HotSHCFMed, d.k, d.x0, m.TMed),
     Slow |-> seasonal(IF spring THEN sub.SpringColdSHCFSlow ELSE sub.FallColdSHCFSlow,
                       sub.HotSHCFSlow, d.k, d.x0, m.TSlow),
     Base |-> seasonal(IF spring THEN sub.SpringColdRBase ELSE sub.FallColdRBase,
                       sub.HotRBase, d.k, d.x0, m.TBase)]

wet_captures(d, st, m, c) ==
    [Fast |-> wet_capture(d.AMRFFast, c.Fast, m.PFast, st.RWPrevF),
     Med |-> wet_capture(d.AMRFMed, c.Med, m.PMed, st.RWPrevM),
     Slow |-> wet_capture(d.AMRFSlow, c.Slow, m.PSlow, st.RWPrevS)]

flows(sub, d, st, m, c, w, step_sec) ==
    LET half(a, b) == RDiv(RAdd(a, b), R(2))
    IN  [Fast |-> flow(sub.area, d.SFFast, step_sec,
                       RAdd(sub.RDFast, half(w.Fast, st.RWPrevF)), m.PFast, st.QPrevF),
         Med |-> flow(sub.area, d.SFMed, step_sec,
                      RAdd(sub.RDMed, half(w.Med, st.RWPrevM)), m.PMed, st.QPrevM),
         Slow |-> flow(sub.area, d.SFSlow, step_sec,
                       RAdd(sub.RDSlow, half(w.Slow, st.RWPrevS)), m.PSlow, st.QPrevS),
         Base |-> flow(sub.area, d.SFBase, step_sec,
                       half(c.Base, st.RPrevB), m.PBase, st.QPrevB)]

\* Percent capture from RD and RW.
percent_captures(sub, c, w) ==
    [Fast |-> RMul(RAdd(sub.RDFast, w.Fast), R(100)),
     Med |-> RMul(RAdd(sub.RDMed, w.Med), R(100)),
     Slow |-> RMul(RAdd(sub.RDSlow, w.Slow), R(100)),
     Base |-> RMul(c.Base, R(100))]

\* Mutant: the base flow is left out of the total.
FlowSum_without_base(q) == RAdd(RAdd(q.Fast, q.Med), q.Slow)

\* Line 657: FlowSum = QFast + QMed + QSlow + QBase
FlowSum(q) == RAdd(RAdd(RAdd(q.Fast, q.Med), q.Slow), q.Base)

\* The state for the next step and the values recorded at index st.curIndex.
timestep_result(st, c, w, q, pcs, precipValue, tempValue) ==
    [st |-> [RWPrevF |-> w.Fast, RWPrevM |-> w.Med, RWPrevS |-> w.Slow,
             RPrevB |-> c.Base,
             QPrevF |-> q.Fast, QPrevM |-> q.Med, QPrevS |-> q.Slow, QPrevB |-> q.Base,
             curIndex |-> st.curIndex + 1,
             curavgIndex |-> st.curavgIndex + 1,
             previousPrecips |-> Append(st.previousPrecips, precipValue),
             previousTemps |-> Append(st.previousTemps, tempValue)],
     at |-> st.curIndex,
     out |-> [Runoff_Total |-> RDiv(FlowSum(q), Q_conv_factor),
              PC_Total |-> RAdd(RAdd(RAdd(pcs.Fast, pcs.Med), pcs.Slow), pcs.Base),
              Runoff_Fast |-> RDiv(q.Fast, Q_conv_factor),
              Runoff_Med |-> RDiv(q.Med, Q_conv_factor),
              Runoff_Slow |-> RDiv(q.Slow, Q_conv_factor),
              Runoff_Base |-> RDiv(q.Base, Q_conv_factor),
              PC_Fast |-> pcs.Fast, PC_Med |-> pcs.Med, PC_Slow |-> pcs.Slow,
              PC_Base |-> pcs.Base,
              SHCF_Fast |-> RDiv(c.Fast, SHCF_conv_factor),
              SHCF_Med |-> RDiv(c.Med, SHCF_conv_factor),
              SHCF_Slow |-> RDiv(c.Slow, SHCF_conv_factor),
              Rain |-> RDiv(precipValue, rain_conv_factor),
              Temps |-> tempValue]]

\* AMM_timestep at instant t: [st |-> the next state, at |-> the index written,
\* out |-> the values recorded].
AMM_timestep(sub, d, precip, temps, st, t, step_sec) ==
    The({The({The({The({timestep_result(st, c, w, q, pcs, precip[st.curavgIndex + 1],
                                        temps[st.curavgIndex + 1]) :
                           q \in {flows(sub, d, st, m, c, w, step_sec)},
                           pcs \in {percent_captures(sub, c, w)}}) :
                      w \in {wet_captures(d, st, m, c)}}) :
                 c \in {heat_factors(sub, d, m, is_spring(t))}}) :
            m \in {averages(sub, st)}})

\* AMM_run up to the loop: the derived attributes, the padded inputs and the
\* first state; rain is _conformed_rain[gage], pre is precalc_temps(maxMA).
AMM_run_begin(sub, step_sec, rain, pre, common) ==
    The({The({[d |-> d, precip |-> precip, temps |-> temps,
               st |-> first_state(sub, d, precip, temps), ti |-> 1] :
                 precip \in {[j \in 1..d.maxMA |-> Zero] \o rain},
                 temps \in {pre \o common}}) : d \in {derived(sub, step_sec)}})

\* None, the value of a result that has not been written.
None == <<0, 0>>

\* [None] * len(_all_t)
NoneList(n) == [j \in 1..n |-> None]

\* The loop of AMM_run from instant ti on, writing into the lists res.
RECURSIVE AMM_run_loop(_, _, _, _, _)
AMM_run_loop(sub, r, times, step_sec, res) ==
    IF r.ti > Len(times) THEN res
    ELSE The({The({AMM_run_loop(sub, r1, times, step_sec, res1) :
                      r1 \in {[r EXCEPT !.st = x.st, !.ti = @ + 1]},
                      res1 \in {[m \in MeasNames |->
                                    [res[m] EXCEPT ![x.at + 1] = x.out[m]]]}}) :
                 x \in {AMM_timestep(sub, r.d, r.precip, r.temps, r.st, times[r.ti],
                                     step_sec)}})

\* sub.results after AMM_run on a fresh subcatchment.
AMM_run(sub, gage, use_ts, temp_data, times, s_t, e_t, step) ==
    The({The({AMM_run_loop(sub, r, times, step * 60,
                           [m \in MeasNames |-> NoneList(Len(times))]) :
                 r \in {AMM_run_begin(
                           sub, step * 60,
                           conform_rainfall(gage, times, step, s_t, e_t).vol,
                           precalc_temps(maxMA, use_ts, temp_data, times, s_t, e_t,
                                         step).temps,
                           precalc_temps(-1, use_ts, temp_data, times, s_t, e_t,
                                         step).temps)}}) :
            maxMA \in {derived(sub, step * 60).maxMA}})

(***************************************************************************)
(* twin_results.  A result set maps each measure name to the identity of   *)
(* a list object; the heap maps identities to contents.  The identities    *)
(* are <<owner, measure, generation>>.                                     *)
(***************************************************************************)
\* Mutant: a shallow copy, the lists themselves are shared.
dict_shallow_copy(res, h, owner) == [dict |-> res, heap |-> h]

\* One new list per key, with the elements of the old one.
dict_deepish_copy(res, h, owner) ==
    LET new == {<<owner, m, 1>> : m \in DOMAIN res}
    IN  [dict |-> [m \in DOMAIN res |-> <<owner, m, 1>>],
         heap |-> [id \in DOMAIN h \cup new |->
                      IF id \in new THEN h[res[id[2]]] ELSE h[id]]]

\* Mutant: the base flow is not scaled.
scaled_names_no_base == RunoffNames \ {"Runoff_Base"}

\* The series twin_results replaces by scaled lists.
scaled_names == RunoffNames

\* [dict |-> the new self.results, heap |-> the heap afterwards]
twin_results(self_area, owner, twin_res, twin_area, h) ==
    The({[dict |-> [m \in DOMAIN c.dict |->
                       IF m \in scaled_names THEN <<owner, m, 2>> ELSE c.dict[m]],
          heap |-> [id \in DOMAIN c.heap \cup {<<owner, m, 2>> : m \in scaled_names} |->
                       IF id \in {<<owner, m, 2>> : m \in scaled_names}
                       THEN [j \in 1..Len(c.heap[c.dict[id[2]]]) |->
                                RMul(c.heap[c.dict[id[2]]][j], area_ratio)]
                       ELSE c.heap[id]]] :
            area_ratio \in {RDiv(self_area, twin_area)},
            c \in {dict_deepish_copy(twin_res, h, owner)}})

\* The list objects some subcatchment still refers to.
Live(res) == {res[i][m] : i \in DOMAIN res, m \in MeasNames}

(***************************************************************************)
(* load_and_validate_ts as the program calls it on one series: for a rain  *)
(* gage (conform_rainfall), for the horizon temperatures (precalc_temps()) *)
(* and, once that call has returned, for the pre-horizon temperatures      *)
(* (precalc_temps(maxMA), which skips the order test).                     *)
(***************************************************************************)
\* Series of up to MaxSrcLen + 1 samples at any times, in any order.
AnySeries ==
    UNION {[1..n -> {<<t, R(1)>> : t \in Times}] : n \in 0..(MaxSrcLen + 1)}

InitValidate ==
    /\ IdleConform /\ IdleRain /\ IdleRouting /\ IdleTSB /\ IdleOutput
    /\ start_t = 1 /\ end_t = MaxT - 1 /\ calc_step_min = 1 /\ all_t = <<>>
    /\ calc_step_sec = <<calc_step_min * 60>>
    /\ called = <<>>
    /\ \E data \in AnySeries : returned = <<[status |-> "series", ts |-> data]>>

\* The series of the time-series table.
TheSeries == returned[1].ts

\* One call: its arguments are logged, and what it returned or raised.
validate_call(expected_overlap, check_ordered) ==
    /\ called' = Append(called, [expected_overlap |-> expected_overlap,
                                 check_ordered |-> check_ordered])
    /\ \E r \in {load_and_validate_ts(TheSeries, expected_overlap, check_ordered,
                                     start_t, end_t)} :
          returned' = Append(returned, [status |-> r,
                                        ts |-> IF r = "ok" THEN TheSeries ELSE <<>>])
    /\ UNCHANGED <<cvars, gvars, rvars, avars, tvars, ovars>>

\* Line 1375: conform_rainfall validates the gage's series.
V_Rain ==
    /\ called = <<>>
    /\ validate_call("partial", TRUE)

\* Lines 1340-1342 and 1354: precalc_temps() for the horizon.
V_TempCommon ==
    /\ called = <<>>
    /\ validate_call("full", TRUE)

\* Lines 1343-1351 and 1354: precalc_temps(maxMA), after the horizon call returned.
V_TempPre ==
    /\ Len(called) \in 1..2
    /\ called[1].expected_overlap = "full" /\ returned[2].status = "ok"
    /\ validate_call("full", FALSE)

NextValidate == V_Rain \/ V_TempCommon \/ V_TempPre

SpecValidate == InitValidate /\ [][NextValidate]_vars

\* The conditions under which the claim says a call must raise.
MustRaise(data, expected_overlap) ==
    \/ Len(data) < 3
    \/ /\ Len(data) >= 1 /\ expected_overlap = "partial"
       /\ (start_t > data[Len(data)][1] \/ end_t < data[1][1])
    \/ /\ Len(data) >= 1 /\ expected_overlap = "full"
       /\ (data[1][1] > start_t \/ data[Len(data)][1] < end_t)
    \/ \E k \in 1..(Len(data) - 1) : ~(data[k][1] < data[k + 1][1])

\* C14: every call of load_and_validate_ts raises when the series has fewer
\* than 3 samples, when a rain series misses the horizon altogether, when a
\* temperature series does not cover it, and when two consecutive samples
\* are not strictly increasing in time; otherwise it returns the series as
\* it is.
C14_ValidationRaises ==
    \A i \in DOMAIN called :
        IF MustRaise(TheSeries, called[i].expected_overlap)
        THEN returned[i + 1].status \in {"too_short", "no_overlap", "no_full_overlap",
                                        "out_of_order"}
        ELSE returned[i + 1] = [status |-> "ok", ts |-> TheSeries]

\* A covering series with two samples at the same time has been refused.
C14_Witness ==
    /\ Len(called) = 1 /\ returned[2].status = "out_of_order"
    /\ \E k \in 1..(Len(TheSeries) - 1) : TheSeries[k][1] = TheSeries[k + 1][1]

(***************************************************************************)
(* The simulation clock of routing (lines 1181-1184), built on its own for *)
(* any horizon and step.                                                   *)
(***************************************************************************)
ClockSteps == {1, 2, 3}

InitClock ==
    /\ IdleConform /\ IdleRain /\ IdleRouting /\ IdleTSB /\ IdleOutput
    /\ start_t \in Times /\ end_t \in start_t..MaxT
    /\ calc_step_min \in ClockSteps
    /\ calc_step_sec = <<calc_step_min * 60>>
    /\ all_t = <<>>
    /\ called = [t |-> start_t]
    /\ returned = <<>>

\* Mutant: the loop stops before an instant equal to the end time.
clock_test_exclusive(t, e_t) == t < e_t

\* Line 1182: while t <= _end_t
clock_test(t, e_t) == t <= e_t

\* Lines 1183-1184: _all_t.append(t); t = t.AddMinutes(_calc_step_min)
K_Append ==
    /\ returned = <<>> /\ clock_test(called.t, end_t)
    /\ all_t' = Append(all_t, called.t)
    /\ called' = [t |-> called.t + calc_step_min]
    /\ UNCHANGED <<start_t, end_t, calc_step_min, calc_step_sec,
                   returned, cvars, rvars, avars,
                   tvars, ovars>>

\* Line 1182: the test fails and the loop is left.
K_Exit ==
    /\ returned = <<>> /\ ~clock_test(called.t, end_t)
    /\ returned' = <<"done">>
    /\ UNCHANGED <<called, cvars, gvars, rvars, avars, tvars, ovars>>

NextClock == K_Append \/ K_Exit

SpecClock == InitClock /\ [][NextClock]_vars

ClockBuilt == returned = <<"done">>

\* The instants of the clock.
Instants == {all_t[k] : k \in DOMAIN all_t}

\* The claim as the spec states it: the clock is the grid from the start
\* and holds both the start and the end of the horizon.
C16_BothEndpoints ==
    ClockBuilt =>
        /\ \A k \in DOMAIN all_t : all_t[k] = start_t + (k - 1) * calc_step_min
        /\ start_t \in Instants /\ end_t \in Instants

\* C16: the clock is the strictly increasing grid start, start + step, ...
\* up to the last grid instant not after the end; it holds the start, and it
\* holds the end exactly when end - start is a whole number of steps.
C16_ClockGrid ==
    ClockBuilt =>
        /\ all_t = clock(start_t, end_t, calc_step_min)
        /\ \A k \in DOMAIN all_t : all_t[k] = start_t + (k - 1) * calc_step_min
        /\ \A k \in 1..(Len(all_t) - 1) : all_t[k] < all_t[k + 1]
        /\ all_t[1] = start_t
        /\ Last(all_t) <= end_t /\ end_t < Last(all_t) + calc_step_min
        /\ end_t \in Instants <=> (end_t - start_t) % calc_step_min = 0

\* A clock whose horizon is not a whole number of steps.
C16_Witness ==
    /\ ClockBuilt /\ Len(all_t) >= 2
    /\ (end_t - start_t) % calc_step_min # 0

(***************************************************************************)
(* MA on its own: any history and any averaging time, in steps, that the   *)
(* history is long enough for (floor(ma_lag) + 2 samples).                 *)
(***************************************************************************)
MaxHistory == 4

HistoryValues == {R(0), R(1), R(4)}

\* Averaging times in quarter steps.
Lags(n) == {Q(k, 4) : k \in 0..(4 * (n - 1) - 1)}

InitMA ==
    /\ IdleConform /\ IdleClock /\ IdleRain /\ IdleRouting /\ IdleTSB /\ IdleOutput
    /\ \E n \in 2..MaxHistory : \E pd \in [1..n -> HistoryValues] : \E L \in Lags(n) :
          called = [previousData |-> pd, ma_lag |-> L]
    /\ returned = <<>>

M_MA ==
    /\ returned = <<>>
    /\ returned' = <<MA(called.previousData, called.ma_lag)>>
    /\ UNCHANGED <<called, cvars, gvars, rvars, avars, tvars, ovars>>

NextMA == M_MA

SpecMA == InitMA /\ [][NextMA]_vars

\* The weight of the i-th newest sample for the averaging time L.
Weight(i, L) ==
    IF i <= RFloor(L) + 1 THEN R(1)
    ELSE IF i = RFloor(L) + 2 THEN RSub(L, R(RFloor(L)))
    ELSE Zero

\* C19: MA(history, L) is the weighted sum of the samples, the floor(L) + 1
\* newest with weight 1 and the next older one with weight frac(L), divided
\* by L + 1, which is the sum of the weights; for a whole L it is the mean of
\* the last L + 1 samples and for L = 0 the newest sample.
C19_WeightedMean ==
    returned # <<>> =>
        LET pd == called.previousData
            L == called.ma_lag
            n == Len(pd)
        IN  /\ RSum([i \in 1..n |-> Weight(i, L)]) = RAdd(L, R(1))
            /\ returned[1] =
                  RDiv(RSum([i \in 1..n |-> RMul(Weight(i, L), pd[n + 1 - i])]),
                       RAdd(L, R(1)))
            /\ L[2] = 1 =>
                  returned[1] = RDiv(RSum(SubSeq(pd, n - L[1], n)), R(L[1] + 1))
            /\ L = Zero => returned[1] = pd[n]

\* An average over one whole sample and three quarters of the one before.
C19_Witness ==
    /\ returned # <<>> /\ called.ma_lag = Q(3, 4)
    /\ called.previousData = <<R(1), R(4), R(0)>>
    /\ returned[1] = Q(12, 7)

(***************************************************************************)
(* class TSB: the writer of the binary time-series file.                   *)
(*                                                                         *)
(* A Python str is a sequence of pieces: <<"ascii", run>> for a run of     *)
(* ASCII characters and <<"cp", n>> for one character of code point n >=   *)
(* 128.  The file is the sequence of the packed fields written to it; the  *)
(* bytes of a field are counted by calcsize.                               *)
(***************************************************************************)
magic_code == 518528588
version == 2
INT4 == "<i"
LONG8 == "<q"
FLOAT4 == "<f"
FLOAT8 == "<d"
CHARS == "<%ds"
BYTE4 == 4
BYTE8 == 8
ENCODING == 0
FIXEDSTEP == 1

\* One ASCII run as a Python str.
ascii(chars) == <<<<"ascii", chars>>>>

\* The UTF-8 bytes of one piece.
encode_piece(p) ==
    IF p[1] = "ascii" THEN [k \in 1..Len(p[2]) |-> <<p[2], k>>]
    ELSE IF p[2] < 2048
         THEN <<<<"cp", 192 + (p[2] \div 64)>>, <<"cp", 128 + (p[2] % 64)>>>>
         ELSE <<<<"cp", 224 + (p[2] \div 4096)>>, <<"cp", 128 + ((p[2] \div 64) % 64)>>,
                <<"cp", 128 + (p[2] % 64)>>>>

RECURSIVE encode(_)
\* s.encode('utf-8')
encode(s) ==
    IF s = <<>> THEN <<>>
    ELSE The({encode_piece(s[1]) \o rest : rest \in {encode(Tail(s))}})

\* struct.pack(fmt, v): one little-endian field.
pack(fmt, v) == [fmt |-> fmt, v |-> v]

\* The number of bytes of a packed field.
calcsize(x) ==
    CASE x.fmt = INT4 -> 4
      [] x.fmt = LONG8 -> 8
      [] x.fmt = FLOAT4 -> 4
      [] x.fmt = FLOAT8 -> 8
      [] x.fmt = CHARS -> Len(x.v)

\* Days from 30 Dec 1899 to 1 Jan of EpochYear.
EpochDay == 44927

\* TSB.__init__: the file is opened (and truncated) for writing.
TSB(start_time) ==
    [start_day |-> RAdd(R(EpochDay), Q(start_time, 1440)),
     f |-> <<>>, closed |-> FALSE, current_pos |-> 0, saved_ts |-> <<>>]

write_header(self) ==
    [self EXCEPT !.f = @ \o <<pack(INT4, magic_code), pack(INT4, version),
                              pack(INT4, ENCODING)>>,
                 !.current_pos = @ + BYTE4 * 3]

get_time_interval(lt_t) == IF Len(lt_t) = 1 THEN 0 ELSE lt_t[2] - lt_t[1]

\* Mutant: the block header is counted without its interval field.
write_ts_short_header(self, category, func_name, unit, loc_name, lt_t, lt_vals, conv_f) ==
    [self EXCEPT
        !.f = @ \o <<pack(INT4, FIXEDSTEP), pack(INT4, Len(lt_t)),
                     pack(FLOAT8, RAdd(Q(lt_t[1], 86400), self.start_day)),
                     pack(FLOAT8, R(get_time_interval(lt_t)))>>
                \o [k \in 1..Len(lt_vals) |-> pack(FLOAT4, RMul(lt_vals[k], conv_f))],
        !.current_pos = @ + BYTE4 * 2 + BYTE8 + BYTE4 * Len(lt_t),
        !.saved_ts = Append(@, [Category |-> category, Function |-> func_name,
                                Unit |-> unit, Location |-> loc_name,
                                Position |-> self.current_pos])]

\* write_ts: one data block, and the entry kept for the footer.
write_ts(self, category, func_name, unit, loc_name, lt_t, lt_vals, conv_f) ==
    [self EXCEPT
        !.f = @ \o <<pack(INT4, FIXEDSTEP), pack(INT4, Len(lt_t)),
                     pack(FLOAT8, RAdd(Q(lt_t[1], 86400), self.start_day)),
                     pack(FLOAT8, R(get_time_interval(lt_t)))>>
                \o [k \in 1..Len(lt_vals) |-> pack(FLOAT4, RMul(lt_vals[k], conv_f))],
        !.current_pos = @ + BYTE4 * 2 + BYTE8 * 2 + BYTE4 * Len(lt_t),
        !.saved_ts = Append(@, [Category |-> category, Function |-> func_name,
                                Unit |-> unit, Location |-> loc_name,
                                Position |-> self.current_pos])]

\* Mutant: the length counted is the number of pieces, not of bytes.
write_chars_by_piece(self, s) ==
    The({[self EXCEPT !.f = @ \o <<pack(INT4, Len(chars)), pack(CHARS, chars)>>,
                      !.current_pos = @ + BYTE4 + Len(s)] :
            chars \in {encode(s)}})

\* _write_chars: the byte count, then the bytes.
write_chars(self, s) ==
    The({[self EXCEPT !.f = @ \o <<pack(INT4, Len(chars)), pack(CHARS, chars)>>,
                      !.current_pos = @ + BYTE4 + Len(chars)] :
            chars \in {encode(s)}})

\* Lines 1599-1604: the footer entry of one saved series.
footer_entry(self, e) ==
    The({The({The({The({[z EXCEPT !.f = @ \o <<pack(LONG8, e.Position)>>,
                                  !.current_pos = @ + BYTE8] :
                           z \in {write_chars(y, e.Location)}}) :
                      y \in {write_chars(x, e.Unit)}}) :
                 x \in {write_chars(w, e.Function)}}) :
            w \in {write_chars(self, e.Category)}})

RECURSIVE footer_entries(_, _)
\* Lines 1598-1604: the entries of saved_ts from position k on.
footer_entries(self, k) ==
    IF k > Len(self.saved_ts) THEN self
    ELSE The({footer_entries(x, k + 1) : x \in {footer_entry(self, self.saved_ts[k])}})

\* write_footer: the entries, the trailer, and the file is closed.
write_footer(self) ==
    The({[x EXCEPT !.f = @ \o <<pack(LONG8, self.current_pos),
                                pack(LONG8, x.current_pos),
                                pack(INT4, Len(self.saved_ts)),
                                pack(INT4, magic_code)>>,
                   !.closed = TRUE] :
            x \in {footer_entries(self, 1)}})

(***************************************************************************)
(* The writer under any sequence of calls: write_header, then write_ts     *)
(* for series of any names and lengths, then write_footer.                 *)
(***************************************************************************)
MaxSeries == 2
MaxPoints == 2

\* Location names: plain, with a two-byte character, with a three-byte one.
TsbNames == {ascii("S1"), <<<<"ascii", "S">>, <<"cp", 233>>>>, <<<<"cp", 8364>>>>}

TsbFuncs == {ascii("Rain")}

\* Timestamps in seconds, one minute apart.
lt_seconds_of(n) == [i \in 1..n |-> (i - 1) * 60]

InitTSB ==
    /\ IdleConform /\ IdleClock /\ IdleRain /\ IdleRouting
    /\ IdleOutput /\ IdleCall
    /\ tsb_f = TSB(720)
    /\ tsb_log = <<>>

T_write_header ==
    /\ ~tsb_f.closed /\ tsb_f.f = <<>>
    /\ tsb_f' = write_header(tsb_f)
    /\ UNCHANGED <<tsb_log, cvars, gvars, rvars, avars, ovars, pvars>>

T_write_ts ==
    /\ ~tsb_f.closed /\ tsb_f.f # <<>> /\ Len(tsb_f.saved_ts) < MaxSeries
    /\ \E loc \in TsbNames, func \in TsbFuncs, n_t \in 1..MaxPoints, n_v \in 1..MaxPoints :
          /\ tsb_f' = write_ts(tsb_f, ascii("AMM_Subcatchments"), func, ascii("mm"), loc,
                               lt_seconds_of(n_t), [k \in 1..n_v |-> R(k)], R(1))
          /\ tsb_log' = Append(tsb_log, [func |-> func, loc |-> loc,
                                         n_t |-> n_t, n_v |-> n_v])
    /\ UNCHANGED <<cvars, gvars, rvars, avars, ovars, pvars>>

T_write_footer ==
    /\ ~tsb_f.closed /\ tsb_f.f # <<>>
    /\ tsb_f' = write_footer(tsb_f)
    /\ UNCHANGED <<tsb_log, cvars, gvars, rvars, avars, ovars, pvars>>

NextTSB == T_write_header \/ T_write_ts \/ T_write_footer

SpecTSB == InitTSB /\ [][NextTSB]_vars

RECURSIVE ByteLen(_)
\* The number of bytes of a sequence of packed fields.
ByteLen(f) ==
    IF f = <<>> THEN 0
    ELSE The({calcsize(f[1]) + n : n \in {ByteLen(Tail(f))}})

\* The byte offset at which field k of the file starts.
OffsetOf(f, k) == ByteLen(SubSeq(f, 1, k - 1))

\* Every write_ts call so far had as many values as timestamps.
Matched == \A j \in DOMAIN tsb_log : tsb_log[j].n_t = tsb_log[j].n_v

RECURSIVE BlockStart(_)
\* 12 + the sum over the series before j of (24 + 4 * n).
BlockStart(j) ==
    IF j = 1 THEN 12
    ELSE The({b + 24 + 4 * tsb_log[j - 1].n_v : b \in {BlockStart(j - 1)}})

RECURSIVE BlockField(_)
\* The position in the file of the first field of data block j.
BlockField(j) ==
    IF j = 1 THEN 4
    ELSE The({b + 4 + tsb_log[j - 1].n_v : b \in {BlockField(j - 1)}})

\* The position in the file of the first field of footer entry j.
FooterField(j) == BlockField(Len(tsb_log) + 1) + 9 * (j - 1)

\* C11: after write_header and write_ts calls with as many values as
\* timestamps, the tracked position is the number of bytes written, each
\* saved offset is 12 + the sum of (24 + 4 n) over the earlier series and is
\* the byte offset of that series' step-mode flag, and after write_footer the
\* footer entries carry these offsets in the order the series were written.
C11_OffsetsLocateBlocks ==
    (Matched /\ tsb_f # NoTSB /\ tsb_f.f # <<>>) =>
        /\ ~tsb_f.closed => tsb_f.current_pos = ByteLen(tsb_f.f)
        /\ Len(tsb_f.saved_ts) = Len(tsb_log)
        /\ \A j \in DOMAIN tsb_log :
              /\ tsb_f.saved_ts[j].Position = BlockStart(j)
              /\ OffsetOf(tsb_f.f, BlockField(j)) = BlockStart(j)
              /\ tsb_f.f[BlockField(j)] = pack(INT4, FIXEDSTEP)
              /\ tsb_f.f[BlockField(j) + 1] = pack(INT4, tsb_log[j].n_t)
              /\ tsb_f.closed =>
                    /\ tsb_f.f[FooterField(j) + 3] = pack(CHARS, encode(tsb_log[j].func))
                    /\ tsb_f.f[FooterField(j) + 7] = pack(CHARS, encode(tsb_log[j].loc))
                    /\ tsb_f.f[FooterField(j) + 8] = pack(LONG8, BlockStart(j))

\* Two series of different lengths and a multi-byte name, footer written.
C11_Witness ==
    /\ tsb_f # NoTSB /\ tsb_f.closed /\ Matched /\ Len(tsb_log) = 2
    /\ tsb_log[1].n_t # tsb_log[2].n_t
    /\ tsb_log[1].loc = <<<<"cp", 8364>>>>

\* The position in the file of the first field of the trailer.
TrailerField == FooterField(Len(tsb_log) + 1)

\* C12: the closed file ends with a 24-byte trailer, written once after all
\* data blocks and footer entries: the byte offset of the first footer entry,
\* the byte offset of the trailer itself, the number of write_ts calls, and
\* the magic number.
C12_Trailer ==
    (Matched /\ tsb_f # NoTSB /\ tsb_f.closed) =>
        /\ Len(tsb_f.f) = TrailerField + 3
        /\ ByteLen(SubSeq(tsb_f.f, TrailerField, Len(tsb_f.f))) = 24
        /\ tsb_f.f[TrailerField] = pack(LONG8, OffsetOf(tsb_f.f, FooterField(1)))
        /\ OffsetOf(tsb_f.f, FooterField(1)) = BlockStart(Len(tsb_log) + 1)
        /\ tsb_f.f[TrailerField + 1] = pack(LONG8, OffsetOf(tsb_f.f, TrailerField))
        /\ tsb_f.f[TrailerField + 2] = pack(INT4, Len(tsb_log))
        /\ tsb_f.f[TrailerField + 3] = pack(INT4, magic_code)
        /\ \A k \in 2..(TrailerField - 1) :
              tsb_f.f[k].fmt = INT4 => tsb_f.f[k].v # magic_code

\* A closed file whose footer holds a name of more bytes than characters.
C12_Witness ==
    /\ tsb_f # NoTSB /\ tsb_f.closed /\ Matched /\ Len(tsb_log) = 2
    /\ tsb_log[2].loc = <<<<"ascii", "S">>, <<"cp", 233>>>>

(***************************************************************************)
(* AMMRun.routing: the subcatchments are calculated one by one.            *)
(***************************************************************************)
MaxSubs == 3

\* 16 Mar 12:00, where the seasonal table gives a whole temperature, and
\* 15 Jul 23:58, where the seasonal switch falls inside the run.
SeasonalStart == 1440 * 74 + 720

RoutingStarts == {SeasonalStart, 1440 * 195 + 1438}

\* Attribute values of the AMM_Subcatchments layer, in the layer's units.
ProfileA ==
    [RDFast |-> R(10), RDMed |-> R(0), RDSlow |-> R(0),
     HtRBase |-> R(1), SpClRB |-> R(2), FlClRB |-> R(3),
     PATFast |-> Q(1, 60), PATMed |-> R(0), PATSlow |-> R(0), PATBase |-> Q(1, 120),
     HHLFast |-> Q(1, 60), HHLMed |-> R(0), HHLSlow |-> R(0), HHLBase |-> Q(1, 120),
     RW0Fast |-> R(5), RW0Med |-> R(0), RW0Slow |-> R(0),
     AMHLFast |-> Q(1, 1440), AMHLMed |-> R(0), AMHLSlow |-> R(0),
     SATFast |-> R(0), SATMed |-> R(0), SATSlow |-> R(0), SATBase |-> Q(1, 1440),
     HtSHCFFast |-> R(1), HtSHCFMed |-> R(0), HtSHCFSlow |-> R(0),
     SpClSHCFF |-> R(2), SpClSHCFM |-> R(0), SpClSHCFS |-> R(0),
     FlClSHCFF |-> R(3), FlClSHCFM |-> R(0), FlClSHCFS |-> R(0),
     HotTemp |-> R(61), ColdTemp |-> R(39)]

\* As ProfileA, with the medium component in use.
ProfileB ==
    [ProfileA EXCEPT !.RDMed = R(20), !.PATMed = Q(1, 40), !.HHLMed = Q(1, 120),
                     !.AMHLMed = Q(1, 2880), !.SATMed = Q(1, 1440),
                     !.HtSHCFMed = R(2), !.SpClSHCFM = R(4), !.FlClSHCFM = R(6)]

Entity(profile, name, outlet, area, gage) ==
    [f \in DOMAIN profile \cup {"Name", "Outlet", "Area", "RainGage"} |->
        CASE f = "Name" -> name
          [] f = "Outlet" -> outlet
          [] f = "Area" -> area
          [] f = "RainGage" -> gage
          [] OTHER -> profile[f]]

SubNames == <<"S1", "S2", "S3", "S4", "S5">>

\* What the entity at position i of the layer can be.
Entities(i) ==
    <<Entity(ProfileA, SubNames[i], "J1", Q(6, 1000), "G1"),
      Entity(ProfileA, SubNames[i], "J2", Q(18, 1000), "G1"),
      Entity(ProfileA, SubNames[i], "J1", Q(6, 1000), "G2"),
      Entity(ProfileB, SubNames[i], "J1", Q(12, 1000), "G1")>>

\* The rain gages of the project.  G1 records around the start s of the run;
\* G2 records on 16 March only, so a run in July finds no overlap with it.
\* G3 reads a file, G4 has two samples only, G5 is out of order.
RoutingGages(s) ==
    [g \in {"G1", "G2", "G3", "G4", "G5"} |->
        CASE g = "G1" ->
                [Series |-> <<<<s, R(5)>>, <<s + 1, R(10)>>, <<s + 2, R(0)>>,
                              <<s + 3, R(5)>>>>,
                 TimeInterval |-> 1, RainFormat |-> "VOLUME",
                 DataSource |-> "TIMESERIES"]
          [] g = "G2" ->
                [Series |-> <<<<SeasonalStart - 1, R(0)>>, <<SeasonalStart + 1, R(10)>>,
                              <<SeasonalStart + 4, R(10)>>>>,
                 TimeInterval |-> 1, RainFormat |-> "CUMULATIVE",
                 DataSource |-> "TIMESERIES"]
          [] g = "G3" ->
                [Series |-> <<>>, TimeInterval |-> 1, RainFormat |-> "VOLUME",
                 DataSource |-> "FILE"]
          [] g = "G4" ->
                [Series |-> <<<<s, R(5)>>, <<s + 1, R(10)>>>>,
                 TimeInterval |-> 1, RainFormat |-> "VOLUME",
                 DataSource |-> "TIMESERIES"]
          [] g = "G5" ->
                [Series |-> <<<<s + 1, R(5)>>, <<s, R(10)>>, <<s + 2, R(0)>>>>,
                 TimeInterval |-> 1, RainFormat |-> "VOLUME",
                 DataSource |-> "TIMESERIES"]]

\* pcpy.SWMM.Nodes
nodes == {"J1", "J2"}

\* As ProfileB, with the slow component in use as well.
ProfileC ==
    [ProfileB EXCEPT !.RDSlow = R(5), !.PATSlow = Q(1, 40), !.HHLSlow = Q(1, 120),
                     !.AMHLSlow = Q(1, 2880), !.SATSlow = Q(1, 1440)]

\* One wrong attribute: the profile it is put into, the attribute, its value.
Defects ==
    <<[base |-> ProfileA, field |-> "HHLFast", value |-> R(0)],
      [base |-> ProfileB, field |-> "HHLMed", value |-> R(0)],
      [base |-> ProfileC, field |-> "HHLSlow", value |-> R(-1)],
      [base |-> ProfileA, field |-> "AMHLFast", value |-> R(0)],
      [base |-> ProfileB, field |-> "AMHLMed", value |-> R(-1)],
      [base |-> ProfileC, field |-> "AMHLSlow", value |-> R(0)],
      [base |-> ProfileA, field |-> "ColdTemp", value |-> R(61)],
      [base |-> ProfileA, field |-> "ColdTemp", value |-> R(70)],
      [base |-> ProfileA, field |-> "Area", value |-> R(0)],
      [base |-> ProfileA, field |-> "Outlet", value |-> "JX"],
      [base |-> ProfileA, field |-> "RainGage", value |-> "G3"],
      [base |-> ProfileA, field |-> "RainGage", value |-> "G4"],
      [base |-> ProfileA, field |-> "RainGage", value |-> "G5"]>>

\* The entity at position i with the wrong attribute d.
Defective(d, i) ==
    [Entity(Defects[d].base, SubNames[i], "J1", Q(6, 1000), "G1")
        EXCEPT ![Defects[d].field] = Defects[d].value]

\* The layers of the runs: any valid entities, or the first valid entity at
\* every position but one, which has one wrong attribute.
EntityLists ==
    UNION {{[i \in 1..n |-> Entities(i)[c[i]]] : c \in [1..n -> DOMAIN Entities(1)]}
           \cup {[i \in 1..n |-> IF i = k THEN Defective(d, i) ELSE Entities(i)[1]] :
                    k \in 1..n, d \in DOMAIN Defects} : n \in 1..MaxSubs}

\* The layer with its last entity given the name of the first.
SameNames(list) ==
    [list EXCEPT ![Len(list)] = [@ EXCEPT !.Name = list[1].Name]]

\* The temperature series of the project.
RoutingTemps(s) ==
    [j \in 1..8 |-> <<s + j - 3, IF j % 2 = 1 THEN R(61) ELSE R(39)>>]

Init ==
    /\ IdleConform
    /\ IdleTSB /\ IdleCall
    /\ rpc = "idle"
    /\ calc_step_min = 1
    /\ calc_step_sec = <<calc_step_min * 60>>
    /\ start_t \in RoutingStarts
    /\ end_t = start_t + (MaxInstants - 1) * calc_step_min
    /\ all_t = clock(start_t, end_t, calc_step_min)
    /\ gages = RoutingGages(start_t)
    /\ conformed_rain = <<>>
    /\ use_temp_timeseries \in BOOLEAN
    /\ (use_temp_timeseries \/ start_t = SeasonalStart)
    /\ temp_timeseries = RoutingTemps(start_t)
    /\ \E list \in EntityLists : \E dupe \in BOOLEAN :
          /\ dupe => Len(list) >= 2
          /\ amm_entities = IF dupe THEN SameNames(list) ELSE list
    /\ amm_subs = <<>>
    /\ sub_i = 0
    /\ already_calced_subs = <<>>
    /\ results = <<>>
    /\ heap = <<>>
    /\ run = NoRun
    /\ common_temps = <<>>
    /\ pc = "names"
    /\ calc_log = <<>>
    /\ inflow_file = NoInflow /\ tsb_file = "old"

\* Lines 1190-1197: the names that occur more than once.
dupes(names) == {names[i] : i \in {i \in DOMAIN names : \E j \in 1..(i - 1) : names[j] = names[i]}}

\* Lines 1190-1198: the names are unique.
R_UniqueNames ==
    /\ pc = "names"
    /\ dupes([i \in DOMAIN amm_entities |-> amm_entities[i].Name]) = {}
    /\ pc' = "construct"
    /\ UNCHANGED <<cvars, gvars, rvars, amm_subs, sub_i, already_calced_subs, results,
                   heap, run, common_temps, use_temp_timeseries, temp_timeseries,
                   calc_log, xvars>>

\* Lines 1198-1199: a name occurs twice, the run ends with an exception.
R_DuplicateNames ==
    /\ pc = "names"
    /\ dupes([i \in DOMAIN amm_entities |-> amm_entities[i].Name]) # {}
    /\ pc' = "raised" /\ rpc' = "duplicate_names"
    /\ UNCHANGED <<cvars, gvars, gages, conformed_rain, amm_subs, sub_i,
                   already_calced_subs, results, heap, run, common_temps,
                   use_temp_timeseries, temp_timeseries, calc_log, xvars>>

\* What each AMMSub(entity) of line 1202 raises, "" if nothing.
construct_errors ==
    [i \in DOMAIN amm_entities |-> AMMSub_raises(amm_entities[i], nodes, gages)]

\* Line 1202: every subcatchment is constructed.
R_Construct ==
    /\ pc = "construct"
    /\ \A i \in DOMAIN amm_entities : construct_errors[i] = ""
    /\ amm_subs' = [i \in DOMAIN amm_entities |-> AMMSub(amm_entities[i], calc_step_min)]
    /\ \E res \in {[i \in DOMAIN amm_entities |-> [m \in MeasNames |-> <<i, m, 0>>]]} :
          /\ results' = res
          /\ heap' = [id \in Live(res) |-> NoneList(Len(all_t))]
    /\ sub_i' = 1
    /\ pc' = "loop"
    /\ UNCHANGED <<cvars, gvars, rvars, already_calced_subs, run, common_temps,
                   use_temp_timeseries, temp_timeseries, calc_log, xvars>>

\* Line 1202: the first entity that fails its validation ends the run.
R_ConstructRaise ==
    /\ pc = "construct"
    /\ \E i \in DOMAIN amm_entities :
          /\ construct_errors[i] # "" /\ \A j \in 1..(i - 1) : construct_errors[j] = ""
          /\ rpc' = construct_errors[i]
    /\ pc' = "raised"
    /\ UNCHANGED <<cvars, gvars, gages, conformed_rain, amm_subs, sub_i,
                   already_calced_subs, results, heap, run, common_temps,
                   use_temp_timeseries, temp_timeseries, calc_log, xvars>>

\* The sub the loop is at.
this_sub == amm_subs[sub_i]

\* The heap restricted to the lists still referred to.
Collect(h, res) == [id \in DOMAIN h \cap Live(res) |-> h[id]]

\* Lines 1213-1217: a twin has been calculated, its results are scaled.
R_Twin ==
    /\ pc = "loop" /\ sub_i <= Len(amm_subs)
    /\ all_params(this_sub) \in DOMAIN already_calced_subs
    /\ \E twin_sub \in {already_calced_subs[all_params(this_sub)]} :
       \E tw \in {twin_results(this_sub.area, sub_i, results[twin_sub],
                               amm_subs[twin_sub].area, heap)} :
       \E res \in {[results EXCEPT ![sub_i] = tw.dict]} :
           /\ results' = res
           /\ heap' = Collect(tw.heap, res)
           /\ calc_log' = Append(calc_log, [sub |-> sub_i, kind |-> "twin",
                                            twin |-> twin_sub])
    /\ sub_i' = sub_i + 1
    /\ UNCHANGED <<xvars, cvars, gvars, rvars, amm_subs, already_calced_subs, run,
                   common_temps, use_temp_timeseries, temp_timeseries, pc>>

\* Mutant: the rain is conformed for every sub, cached or not.
run_inputs_no_cache ==
    [rain |-> conform_rainfall(gages[this_sub.gage], all_t, calc_step_min,
                               start_t, end_t),
     common |-> IF Len(common_temps) = 0
                THEN precalc_temps(-1, use_temp_timeseries, temp_timeseries,
                                   all_t, start_t, end_t, calc_step_min)
                ELSE [status |-> "ok", temps |-> common_temps],
     pre |-> precalc_temps(derived(this_sub, calc_step_sec[1]).maxMA,
                           use_temp_timeseries, temp_timeseries,
                           all_t, start_t, end_t, calc_step_min),
     calls |-> <<<<"conform_rainfall", this_sub.gage>>>>
               \o (IF Len(common_temps) = 0 THEN <<<<"precalc_temps", "">>>> ELSE <<>>)]

\* What AMM_run needs before its loop: the gage's rain and the temperatures,
\* and the calls of conform_rainfall and precalc_temps() it makes for them.
run_inputs ==
    [rain |-> IF this_sub.gage \in DOMAIN conformed_rain
              THEN [status |-> "ok", vol |-> conformed_rain[this_sub.gage]]
              ELSE conform_rainfall(gages[this_sub.gage], all_t, calc_step_min,
                                    start_t, end_t),
     common |-> IF Len(common_temps) = 0
                THEN precalc_temps(-1, use_temp_timeseries, temp_timeseries,
                                   all_t, start_t, end_t, calc_step_min)
                ELSE [status |-> "ok", temps |-> common_temps],
     pre |-> precalc_temps(derived(this_sub, calc_step_sec[1]).maxMA,
                           use_temp_timeseries, temp_timeseries,
                           all_t, start_t, end_t, calc_step_min),
     calls |-> (IF this_sub.gage \in DOMAIN conformed_rain THEN <<>>
                ELSE <<<<"conform_rainfall", this_sub.gage>>>>)
               \o (IF Len(common_temps) = 0 THEN <<<<"precalc_temps", "">>>> ELSE <<>>)]

\* Lines 1218-1220 and 455-520: no twin yet, AMM_run starts.
R_RunStart ==
    /\ pc = "loop" /\ sub_i <= Len(amm_subs)
    /\ all_params(this_sub) \notin DOMAIN already_calced_subs
    /\ \E x \in {run_inputs} :
           /\ x.rain.status = "ok" /\ x.common.status = "ok" /\ x.pre.status = "ok"
           /\ conformed_rain' = (this_sub.gage :> x.rain.vol) @@ conformed_rain
           /\ common_temps' = x.common.temps
           /\ run' = AMM_run_begin(this_sub, calc_step_sec[1], x.rain.vol,
                                   x.pre.temps, x.common.temps)
           /\ called' = called \o x.calls
    /\ pc' = "run"
    /\ calc_log' = Append(calc_log, [sub |-> sub_i, kind |-> "run", twin |-> sub_i])
    /\ UNCHANGED <<tvars, ovars, returned, cvars, gvars, gages, rpc, amm_subs, sub_i,
                   already_calced_subs, results, heap, use_temp_timeseries,
                   temp_timeseries>>

\* Lines 494-495 and 505-508: conform_rainfall or precalc_temps raises and
\* the calculation is abandoned.
R_RunRaise ==
    /\ pc = "loop" /\ sub_i <= Len(amm_subs)
    /\ all_params(this_sub) \notin DOMAIN already_calced_subs
    /\ \E x \in {run_inputs} :
           /\ ~(x.rain.status = "ok" /\ x.common.status = "ok" /\ x.pre.status = "ok")
           /\ rpc' = IF x.rain.status # "ok" THEN x.rain.status
                     ELSE IF x.common.status # "ok" THEN x.common.status
                     ELSE x.pre.status
           /\ called' = called \o (IF x.rain.status # "ok" THEN SubSeq(x.calls, 1, 1)
                                    ELSE x.calls)
    /\ pc' = "raised"
    /\ UNCHANGED <<tvars, ovars, returned, cvars, gvars, gages, conformed_rain, amm_subs,
                   sub_i, already_calced_subs, results, heap, run, common_temps,
                   use_temp_timeseries, temp_timeseries, calc_log>>

\* Lines 523-524: one AMM_timestep of the running sub.
R_Timestep ==
    /\ pc = "run" /\ run.ti <= Len(all_t)
    /\ \E x \in {AMM_timestep(this_sub, run.d, run.precip, run.temps, run.st,
                              all_t[run.ti], calc_step_sec[1])} :
       \E mine \in {results[sub_i]} :
           /\ run' = [run EXCEPT !.st = x.st, !.ti = @ + 1]
           /\ heap' = [id \in DOMAIN heap |->
                          IF \E m \in MeasNames : mine[m] = id
                          THEN [heap[id] EXCEPT ![x.at + 1] =
                                   x.out[CHOOSE m \in MeasNames : mine[m] = id]]
                          ELSE heap[id]]
    /\ UNCHANGED <<xvars, cvars, gvars, rvars, amm_subs, sub_i, already_calced_subs,
                   results, common_temps, use_temp_timeseries, temp_timeseries,
                   pc, calc_log>>

\* _already_calced_subs[fp] = the sub at position i
register(cache, fp, i) ==
    [k \in DOMAIN cache \cup {fp} |-> IF k = fp THEN i ELSE cache[k]]

\* Mutant: AMM_run may return before its last step.
R_RunEnd_early ==
    /\ pc = "run" /\ run.ti >= Len(all_t)
    /\ already_calced_subs' =
          register(already_calced_subs, all_params(this_sub), sub_i)
    /\ run' = NoRun
    /\ sub_i' = sub_i + 1
    /\ pc' = "loop"
    /\ UNCHANGED <<xvars, cvars, gvars, rvars, amm_subs, results, heap, common_temps,
                   use_temp_timeseries, temp_timeseries, calc_log>>

\* Lines 1221-1222: AMM_run has returned, the sub is registered for twins.
R_RunEnd ==
    /\ pc = "run" /\ run.ti > Len(all_t)
    /\ already_calced_subs' =
          register(already_calced_subs, all_params(this_sub), sub_i)
    /\ run' = NoRun
    /\ sub_i' = sub_i + 1
    /\ pc' = "loop"
    /\ UNCHANGED <<xvars, cvars, gvars, rvars, amm_subs, results, heap, common_temps,
                   use_temp_timeseries, temp_timeseries, calc_log>>

\* Line 1206: the loop over amm_subs is over.
R_Calculated ==
    /\ pc = "loop" /\ sub_i > Len(amm_subs)
    /\ pc' = "calculated"
    /\ UNCHANGED <<xvars, cvars, gvars, rvars, amm_subs, sub_i, already_calced_subs,
                   results, heap, run, common_temps, use_temp_timeseries,
                   temp_timeseries, calc_log>>

\* Every result list of every sub has been filled.
results_filled ==
    \A i \in DOMAIN results : \A m \in MeasNames :
        \A k \in DOMAIN heap[results[i][m]] : heap[results[i][m]][k] # None

\* Lines 1258-1260: the total runoff into an outlet at instant k.
outlet_flow(outlet, k) ==
    RSum([i \in DOMAIN amm_subs |->
             IF amm_subs[i].outlet = outlet
             THEN heap[results[i]["Runoff_Total"]][k] ELSE Zero])

\* Mutant: the export starts as soon as the loop has reached the last sub.
inflow_may_open_at_last_sub ==
    pc = "calculated" \/ (pc = "loop" /\ sub_i = Len(amm_subs))

\* Line 1224: the export comes after the loop over amm_subs.
inflow_may_open == pc = "calculated"

\* Lines 1226-1262: the inflow interface file is opened and written.  A
\* result that is still None ends the writing with a TypeError.
R_Inflow ==
    /\ inflow_may_open /\ ~inflow_file.opened
    /\ \E unique_outlets \in {{amm_subs[i].outlet : i \in DOMAIN amm_subs}} :
          IF results_filled
          THEN /\ inflow_file' =
                     [opened |-> TRUE, step_sec |-> calc_step_min * 60,
                      nodes |-> unique_outlets,
                      flows |-> [k \in DOMAIN all_t |->
                                    [o \in unique_outlets |-> outlet_flow(o, k)]]]
               /\ pc' = "output" /\ UNCHANGED rpc
          ELSE /\ inflow_file' = [opened |-> TRUE, step_sec |-> calc_step_min * 60,
                                  nodes |-> unique_outlets, flows |-> <<>>]
               /\ pc' = "raised" /\ rpc' = "TypeError"
    /\ UNCHANGED <<cvars, gvars, gages, conformed_rain, amm_subs, sub_i,
                   already_calced_subs, results, heap, run, common_temps,
                   use_temp_timeseries, temp_timeseries, calc_log, tvars,
                   amm_entities, tsb_file, pvars>>

\* Lines 1292-1298 with the CMS flow unit: function name and unit.
tsb_funcs ==
    <<<<"Runoff", "m3/s">>, <<"Percent Capture", "%">>, <<"SHCF", "%/mm">>,
      <<"Rain", "mm">>, <<"Temperature", "degrees">>>>

\* _meas_names[meas_name][0], counted from 1.
func_index(meas_name) ==
    CASE meas_name \in RunoffNames -> 1
      [] meas_name \in {"PC_Total", "PC_Fast", "PC_Med", "PC_Slow", "PC_Base"} -> 2
      [] meas_name \in {"SHCF_Fast", "SHCF_Med", "SHCF_Slow"} -> 3
      [] meas_name = "Rain" -> 4
      [] meas_name = "Temps" -> 5

\* _meas_names[meas_name][1]: the measure is appended to the location name.
concat_name(meas_name) == meas_name \notin {"Runoff_Total", "PC_Total", "Rain", "Temps"}

\* Lines 1312-1314
loc_name(sub, meas_name) ==
    IF concat_name(meas_name) THEN sub.name \o "_" \o meas_name ELSE sub.name

\* Line 1300
lt_seconds == [i \in DOMAIN all_t |-> (i - 1) * calc_step_sec[1]]

RECURSIVE write_sub(_, _, _)
\* Lines 1308-1316: the series of sub i from measure k on.
write_sub(self, i, k) ==
    IF k > Len(meas_names) THEN self
    ELSE The({write_sub(x, i, k + 1) :
                 x \in {write_ts(self, ascii("AMM_Subcatchments"),
                                 ascii(tsb_funcs[func_index(meas_names[k])][1]),
                                 ascii(tsb_funcs[func_index(meas_names[k])][2]),
                                 ascii(loc_name(amm_subs[i], meas_names[k])),
                                 lt_seconds, heap[results[i][meas_names[k]]], R(1))}})

\* The sub whose series are written next.
tsb_sub == Len(tsb_f.saved_ts) \div Len(meas_names) + 1

\* Lines 1273-1306: the old file is removed, the new one opened, the header written.
R_TSBOpen ==
    /\ pc = "output" /\ inflow_file.opened /\ tsb_file = "old"
    /\ tsb_file' = "open"
    /\ tsb_f' = write_header(TSB(start_t))
    /\ UNCHANGED <<cvars, gvars, rvars, avars, tsb_log, amm_entities, inflow_file, pvars>>

\* Lines 1307-1316: the fifteen series of one sub.
R_TSBSeries ==
    /\ pc = "output" /\ tsb_file = "open" /\ tsb_sub <= Len(amm_subs)
    /\ tsb_f' = write_sub(tsb_f, tsb_sub, 1)
    /\ tsb_log' = tsb_log \o
          [k \in DOMAIN meas_names |->
              [func |-> ascii(tsb_funcs[func_index(meas_names[k])][1]),
               loc |-> ascii(loc_name(amm_subs[tsb_sub], meas_names[k])),
               n_t |-> Len(lt_seconds),
               n_v |-> Len(heap[results[tsb_sub][meas_names[k]]])]]
    /\ UNCHANGED <<cvars, gvars, rvars, avars, ovars, pvars>>

\* Line 1317: the footer, and the file is closed.
R_TSBFooter ==
    /\ pc = "output" /\ tsb_file = "open" /\ tsb_sub > Len(amm_subs)
    /\ tsb_f' = write_footer(tsb_f)
    /\ tsb_file' = "written"
    /\ pc' = "done"
    /\ UNCHANGED <<cvars, gvars, rvars, amm_subs, sub_i, already_calced_subs, results,
                   heap, run, common_temps, use_temp_timeseries, temp_timeseries,
                   calc_log, tsb_log, amm_entities, inflow_file, pvars>>

Next ==
    \/ R_UniqueNames \/ R_DuplicateNames \/ R_Construct \/ R_ConstructRaise
    \/ R_Twin \/ R_RunStart \/ R_RunRaise \/ R_Timestep \/ R_RunEnd \/ R_Calculated
    \/ R_Inflow \/ R_TSBOpen \/ R_TSBSeries \/ R_TSBFooter

Spec == Init /\ [][Next]_vars

(***************************************************************************)
(* Properties of the twin path and of the twin cache.                      *)
(***************************************************************************)
\* The elements of the list that sub i holds for measure m.
ResultOf(i, m) == heap[results[i][m]]

\* The entries of calc_log of the subs that took the twin path.
TwinEntries == {calc_log[k] : k \in {j \in DOMAIN calc_log : calc_log[j].kind = "twin"}}

\* sub.results had sub i been calculated by AMM_run on its own.
FullRun(i) ==
    AMM_run(amm_subs[i], gages[amm_subs[i].gage], use_temp_timeseries,
            temp_timeseries, all_t, start_t, end_t, calc_step_min)

AreaRatio(e) == RDiv(amm_subs[e.sub].area, amm_subs[e.twin].area)

Scaled(list, ratio) == [j \in 1..Len(list) |-> RMul(list[j], ratio)]

\* A sub without the fields that are not part of the fingerprint.
Calibration(sub) == [f \in DOMAIN sub \ {"area", "name", "outlet"} |-> sub[f]]

\* C1: when the calculation is over, every sub that took the twin path holds
\* the results a full AMM_run of that sub would have written, all fifteen
\* series step by step, and its five runoff series are the twin's flows
\* multiplied by area_self / area_twin.  Such a sub differs from its twin in
\* area, name and outlet only.
C1_TwinEqualsFullRun ==
    pc = "calculated" =>
        \A e \in TwinEntries :
            /\ Calibration(amm_subs[e.sub]) = Calibration(amm_subs[e.twin])
            /\ \A full \in {FullRun(e.sub)} :
                  \A m \in MeasNames : ResultOf(e.sub, m) = full[m]
            /\ \A m \in RunoffNames :
                  ResultOf(e.sub, m) = Scaled(ResultOf(e.twin, m), AreaRatio(e))

\* A twin of another area got flows that differ from its twin's flows.
C1_Witness ==
    /\ pc = "calculated"
    /\ \E e \in TwinEntries :
          /\ AreaRatio(e) # R(1)
          /\ ResultOf(e.sub, "Runoff_Base")[Len(all_t)] # Zero
          /\ ResultOf(e.sub, "Runoff_Total") = FullRun(e.sub)["Runoff_Total"]
          /\ \A j \in 1..Len(all_t) :
                ResultOf(e.sub, "Runoff_Total")[j] # ResultOf(e.twin, "Runoff_Total")[j]

\* A step of the routing loop that takes the twin path.
TwinStep ==
    /\ Len(calc_log') = Len(calc_log) + 1
    /\ Last(calc_log').kind = "twin"

\* C2: after twin_results the five runoff series of the receiving sub are the
\* twin's values times area_self / area_twin and the other ten series equal
\* the twin's element for element; no list is shared between two result sets
\* (nor between two measures); the call leaves the twin's result set, and
\* every list in it, as it was.
C2_TwinFrame ==
    /\ [](\A e \in TwinEntries :
            /\ \A m \in RunoffNames :
                  ResultOf(e.sub, m) = Scaled(ResultOf(e.twin, m), AreaRatio(e))
            /\ \A m \in MeasNames \ RunoffNames :
                  ResultOf(e.sub, m) = ResultOf(e.twin, m)
            /\ \A m1, m2 \in MeasNames : results[e.sub][m1] # results[e.twin][m2])
    /\ [](\A i, j \in DOMAIN results : \A m1, m2 \in MeasNames :
            results[i][m1] = results[j][m2] => i = j /\ m1 = m2)
    /\ [][TwinStep =>
            \A t \in {Last(calc_log').twin} :
                /\ results'[t] = results[t]
                /\ \A m \in MeasNames : heap'[results[t][m]] = heap[results[t][m]]]_vars

\* A twin of another area holds scaled flows and the twin's percent capture.
C2_Witness ==
    \E e \in TwinEntries :
        /\ AreaRatio(e) # R(1)
        /\ ResultOf(e.twin, "Runoff_Fast")[1] # Zero
        /\ ResultOf(e.sub, "Runoff_Fast")[1] # ResultOf(e.twin, "Runoff_Fast")[1]
        /\ ResultOf(e.sub, "PC_Total")[1] # Zero
        /\ ResultOf(e.sub, "PC_Total") = ResultOf(e.twin, "PC_Total")
        /\ results[e.sub]["PC_Total"] # results[e.twin]["PC_Total"]

\* The first position in amm_subs of a sub with the fingerprint fp.
FirstWith(fp) ==
    CHOOSE i \in DOMAIN amm_subs :
        /\ all_params(amm_subs[i]) = fp
        /\ \A j \in 1..(i - 1) : all_params(amm_subs[j]) # fp

\* No result of sub i is still unwritten.
Complete(i) == \A m \in MeasNames : \A j \in 1..Len(all_t) : ResultOf(i, m)[j] # None

\* C3: the fingerprint is the calibration and the gage, without area, name
\* and outlet; the cache maps a fingerprint to the first sub in order that has
\* it, once that sub's run is over; the k-th sub processed takes AMM_run if
\* it is the first with its fingerprint and the twin path, reading that first
\* sub, otherwise; an entry of the cache is never replaced or removed; and
\* when the twin path reads a sub's results, no run is in progress and that
\* sub's results are all written.
C3_FirstWithFingerprintRuns ==
    /\ [](\A i, j \in DOMAIN amm_subs :
            all_params(amm_subs[i]) = all_params(amm_subs[j])
                <=> Calibration(amm_subs[i]) = Calibration(amm_subs[j]))
    /\ [](\A fp \in DOMAIN already_calced_subs :
            /\ already_calced_subs[fp] = FirstWith(fp)
            /\ already_calced_subs[fp] < sub_i
            /\ Complete(already_calced_subs[fp]))
    /\ [](\A k \in DOMAIN calc_log :
            /\ calc_log[k].sub = k
            /\ calc_log[k].twin = FirstWith(all_params(amm_subs[k]))
            /\ calc_log[k].kind = (IF calc_log[k].twin = k THEN "run" ELSE "twin"))
    /\ [][\A fp \in DOMAIN already_calced_subs :
            /\ fp \in DOMAIN already_calced_subs'
            /\ already_calced_subs'[fp] = already_calced_subs[fp]]_vars
    /\ [][TwinStep =>
            /\ pc = "loop" /\ run = NoRun
            /\ Last(calc_log').twin = already_calced_subs[all_params(this_sub)]
            /\ Complete(Last(calc_log').twin)]_vars

\* Two fingerprints are registered, and a sub found its twin two places back.
C3_Witness ==
    /\ pc = "calculated"
    /\ Cardinality(DOMAIN already_calced_subs) >= 2
    /\ \E e \in TwinEntries : e.twin < e.sub - 1

(***************************************************************************)
(* The moving-average history of AMM_run.                                  *)
(***************************************************************************)
\* AMM_run is about to execute step i (counted from 0) of the running sub.
AtStep(i) == pc = "run" /\ run.ti = i + 1 /\ i < Len(all_t)

\* C17: before the first simulation step the rainfall history holds
\* maxMA + 1 entries, all of them zero: no rainfall of the horizon is in it.
C17_InitialHistoryZero ==
    AtStep(0) =>
        /\ Len(run.st.previousPrecips) = run.d.maxMA + 1
        /\ \A j \in DOMAIN run.st.previousPrecips : run.st.previousPrecips[j] = Zero

\* The conformed rainfall of the running sub's gage: r_0, r_1, ...
RunRain == conformed_rain[this_sub.gage]

\* C18: at every step i the rainfall history read by the moving average is
\* the leading zeros followed by r_0 ... r_i, each once, so its newest
\* sample is the value recorded in the Rain series at index i.
C18_HistoryIsRainPrefix ==
    \A i \in 0..(Len(all_t) - 1) :
        AtStep(i) =>
            /\ \E z \in {run.d.maxMA, run.d.maxMA + 1} :
                  run.st.previousPrecips = [j \in 1..z |-> Zero] \o SubSeq(RunRain, 1, i + 1)
            /\ Last(run.st.previousPrecips) = RunRain[i + 1]

(***************************************************************************)
(* Validation before the recursion and before the output.                  *)
(***************************************************************************)
\* The entity breaks the half-life rule of one of its components or the
\* order of its reference temperatures.
Violates(entity) ==
    \/ \E c \in {"Fast", "Med", "Slow"} :
          /\ entity["RD" \o c] # Zero
          /\ (RLe(entity["HHL" \o c], Zero) \/ RLe(entity["AMHL" \o c], Zero))
    \/ ~RLt(entity.ColdTemp, entity.HotTemp)

\* C15: with an entity that has a nonzero dry-weather capture and a
\* half-life (hydrograph or antecedent moisture) <= 0 in one component, or a
\* cold reference temperature not below the hot one, the construction raises
\* a validation error: the run ends there, no subcatchment is constructed
\* and no recursion is started.
C15_InvalidNeverRuns ==
    (\E i \in DOMAIN amm_entities : Violates(amm_entities[i])) =>
        /\ pc \in {"names", "construct", "raised"}
        /\ pc = "raised" => rpc # "idle"
        /\ amm_subs = <<>> /\ run = NoRun /\ calc_log = <<>>

\* The second entity has a slow component with a negative hydrograph
\* half-life, and its construction has raised.
C15_Witness ==
    /\ pc = "raised" /\ rpc = "HHLSlow"
    /\ Len(amm_entities) >= 2
    /\ ~Violates(amm_entities[1]) /\ Violates(amm_entities[2])

\* An output action has been taken.
OutputBegun == inflow_file.opened \/ tsb_file # "old" \/ tsb_f # NoTSB

\* C13: when a validation error has been raised, the inflow interface file
\* has not been opened and the binary series file has not been removed,
\* opened or written; an output action is taken only when the names are
\* unique, every subcatchment is constructed and every subcatchment has
\* been calculated.
C13_RaisedBeforeOutput ==
    /\ pc = "raised" => ~OutputBegun
    /\ OutputBegun =>
          /\ rpc = "idle"
          /\ dupes([i \in DOMAIN amm_entities |-> amm_entities[i].Name]) = {}
          /\ Len(amm_subs) = Len(amm_entities)
          /\ sub_i > Len(amm_subs) /\ run = NoRun
          /\ \A i \in DOMAIN amm_subs : Complete(i)

\* A time series error raised after an earlier sub was calculated in full:
\* still nothing has been written.
C13_Witness ==
    /\ pc = "raised" /\ rpc = "out_of_order"
    /\ sub_i >= 2 /\ Complete(1)
    /\ ~OutputBegun

(***************************************************************************)
(* The seasonal blend of AMM_timestep on its own: the heat factors of one  *)
(* subcatchment at one averaged temperature.  The temperature is given by  *)
(* its depth j: T = x0 + j (HotTemp - ColdTemp) / 2, so that j = -1 is     *)
(* ColdTemp, j = 1 is HotTemp and the exponent -k (T - x0) is 2.3982 j.    *)
(***************************************************************************)
MaxDepth == 3

\* Heat-capture references of the fast component, in the layer's units.
HotValues == {R(0), R(1), R(3)}

SpringValues == {R(0), R(2), R(3)}

FallValues == {R(1), R(4)}

\* ColdTemp and HotTemp
TempPairs == {<<R(39), R(61)>>, <<R(40), R(50)>>}

BlendSub(hot, sc, fc, pair) ==
    AMMSub(Entity([ProfileA EXCEPT !.HtSHCFFast = hot, !.SpClSHCFF = sc,
                                   !.FlClSHCFF = fc, !.ColdTemp = pair[1],
                                   !.HotTemp = pair[2]],
                  "S1", "J1", Q(6, 1000), "G1"), 1)

TempAt(sub, j) ==
    RAdd(RDiv(RAdd(sub.ColdTemp, sub.HotTemp), R(2)),
         RMul(Q(j, 2), RSub(sub.HotTemp, sub.ColdTemp)))

InitBlend ==
    /\ IdleConform /\ IdleClock /\ IdleRain /\ IdleRouting
    /\ IdleTSB /\ IdleOutput
    /\ \E hot \in HotValues, sc \in SpringValues, fc \in FallValues,
          pair \in TempPairs, spring \in BOOLEAN, j \in -MaxDepth..MaxDepth :
          called = <<[sub |-> BlendSub(hot, sc, fc, pair), spring |-> spring, j |-> j]>>
    /\ returned = <<>>

\* Lines 548-589: the four blend values of one step.
B_heat_factors ==
    /\ called # <<>> /\ returned = <<>>
    /\ \E sub \in {called[1].sub} : \E T \in {TempAt(sub, called[1].j)} :
          returned' = <<heat_factors(sub, derived(sub, 60),
                                     [TFast |-> T, TMed |-> T, TSlow |-> T, TBase |-> T],
                                     called[1].spring)>>
    /\ UNCHANGED <<cvars, gvars, rvars, avars, tvars, ovars, called>>

NextBlend == B_heat_factors

SpecBlend == InitBlend /\ [][NextBlend]_vars

Components == {"Fast", "Med", "Slow", "Base"}

\* The cold reference selected by the season, and the hot reference.
ColdRef(sub, spring, c) ==
    IF c = "Base" THEN (IF spring THEN sub.SpringColdRBase ELSE sub.FallColdRBase)
    ELSE sub[(IF spring THEN "SpringCold" ELSE "FallCold") \o "SHCF" \o c]

HotRef(sub, c) == IF c = "Base" THEN sub.HotRBase ELSE sub["HotSHCF" \o c]

\* v is at a or b or between them.
Between(v, a, b) == (RLe(a, v) /\ RLe(v, b)) \/ (RLe(b, v) /\ RLe(v, a))

MaxRunSteps == 3

\* Millimetres recorded in one step.
PulseDepths == {0, 5}

\* As ProfileA, with no averaging of the fast component's rain.
ProfileP == [ProfileA EXCEPT !.PATFast = R(0)]

\* As ProfileA without heat capture of the fast component; the medium
\* component is unused (no dry-weather capture, no half-life) but starts wet.
ProfileU ==
    [ProfileA EXCEPT !.RW0Med = R(100), !.AMHLMed = Q(1, 1440),
                     !.HtSHCFFast = R(0), !.SpClSHCFF = R(0), !.FlClSHCFF = R(0)]

PulseEntities ==
    {Entity(ProfileA, "S1", "J1", Q(6, 1000), "G1"),
     Entity(ProfileP, "S1", "J1", Q(6, 1000), "G1"),
     Entity(ProfileC, "S1", "J1", Q(6, 1000), "G1"),
     Entity(ProfileU, "S1", "J1", Q(6, 10), "G1")}

PulseGage(s, vols) ==
    [Series |-> [i \in DOMAIN vols |-> <<s + i - 1, R(vols[i])>>],
     TimeInterval |-> 1, RainFormat |-> "VOLUME", DataSource |-> "TIMESERIES"]

InitPulse ==
    /\ IdleConform
    /\ IdleTSB /\ IdleCall
    /\ rpc = "idle"
    /\ calc_step_min = 1
    /\ calc_step_sec = <<calc_step_min * 60>>
    /\ start_t = SeasonalStart
    /\ end_t = start_t + (MaxRunSteps - 1) * calc_step_min
    /\ all_t = clock(start_t, end_t, calc_step_min)
    /\ \E vols \in [1..MaxRunSteps -> PulseDepths] :
          gages = [g \in {"G1"} |-> PulseGage(start_t, vols)]
    /\ conformed_rain = <<>>
    /\ use_temp_timeseries = FALSE
    /\ temp_timeseries = <<>>
    /\ \E entity \in PulseEntities : amm_entities = <<entity>>
    /\ amm_subs = <<>>
    /\ sub_i = 0
    /\ already_calced_subs = <<>>
    /\ results = <<>>
    /\ heap = <<>>
    /\ run = NoRun
    /\ common_temps = <<>>
    /\ pc = "construct"
    /\ calc_log = <<>>
    /\ inflow_file = NoInflow /\ tsb_file = "old"

NextPulse == R_Construct \/ R_RunStart \/ R_Timestep \/ R_RunEnd \/ R_Calculated

SpecPulse == InitPulse /\ [][NextPulse]_vars

\* The steps the running sub has executed.
StepsDone == run.ti - 1

\* The rain history that step j (counted from 0) of the running sub averaged:
\* every later step has appended one value.
HistoryAt(j) == SubSeq(run.st.previousPrecips, 1, run.d.maxMA + 1 + j)

\* The averaged rain of component c at step j.
RainMA(c, j) == MA(HistoryAt(j), this_sub["PAT" \o c])

\* The flow of component c recorded at step j; -1 is before the first step.
FlowAt(c, j) == IF j < 0 THEN Zero ELSE RMul(ResultOf(sub_i, "Runoff_" \o c)[j + 1],
                                             Q_conv_factor)

\* C22 as stated: at a step where a component's averaged rain is zero, its
\* flow is 0.5 ^ (step seconds / half-life) times its flow of the previous
\* step (with no flow before and after, any rate fits).
C22_DecayAtHalfLifeRate ==
    pc = "run" =>
        \A c \in Components : \A j \in 0..(StepsDone - 1) :
            RainMA(c, j) = Zero =>
                \/ FlowAt(c, j) = Zero /\ FlowAt(c, j - 1) = Zero
                \/ /\ this_sub["HHL" \o c] # Zero
                   /\ FlowAt(c, j) =
                         RMul(HalfPow(RDiv(R(calc_step_min * 60), this_sub["HHL" \o c])),
                              FlowAt(c, j - 1))

\* C22, amended: at a step where a component's averaged rain is zero, its
\* flow is its decay factor times its flow of the previous step, and the
\* decay factor is 0.5 ^ (step seconds / half-life) for a nonzero half-life
\* and 0.99 for a half-life of 0.
C22_DecayAtDecayConstant ==
    pc = "run" =>
        \A c \in Components : \A j \in 0..(StepsDone - 1) :
            RainMA(c, j) = Zero =>
                FlowAt(c, j) =
                    RMul(IF this_sub["HHL" \o c] = Zero THEN Q(99, 100)
                         ELSE HalfPow(RDiv(R(calc_step_min * 60), this_sub["HHL" \o c])),
                         FlowAt(c, j - 1))

\* The pulse has left the window of a component with a half-life: its flow
\* decays from a flow that is not zero.
C22_Witness ==
    /\ pc = "run"
    /\ \E c \in Components : \E j \in 1..(StepsDone - 1) :
          /\ RainMA(c, j) = Zero /\ this_sub["HHL" \o c] # Zero
          /\ FlowAt(c, j - 1) # Zero
          /\ FlowAt(c, j) = RMul(run.d["SF" \o c], FlowAt(c, j - 1))

(***************************************************************************)
(* The result sets of routing.                                             *)
(***************************************************************************)
\* Index j of the result lists of sub i has been written.
Written(i, j) == ResultOf(i, "Runoff_Total")[j] # None

\* C23: in every result set, computed by AMM_run or obtained by
\* twin_results, Runoff_Total at each step is the sum of Runoff_Fast,
\* Runoff_Med, Runoff_Slow and Runoff_Base at that step.
C23_TotalIsSumOfComponents ==
    \A i \in DOMAIN results : \A j \in DOMAIN all_t :
        Written(i, j) =>
            ResultOf(i, "Runoff_Total")[j] =
                RAdd(RAdd(RAdd(ResultOf(i, "Runoff_Fast")[j], ResultOf(i, "Runoff_Med")[j]),
                          ResultOf(i, "Runoff_Slow")[j]),
                     ResultOf(i, "Runoff_Base")[j])

\* A twin with another area has its scaled results, and a step of it has
\* flow in the fast and the base component.
C23_Witness ==
    /\ pc = "calculated"
    /\ \E e \in TwinEntries : \E j \in DOMAIN all_t :
          /\ AreaRatio(e) # R(1)
          /\ ResultOf(e.sub, "Runoff_Fast")[j] # Zero
          /\ ResultOf(e.sub, "Runoff_Base")[j] # Zero
          /\ ResultOf(e.sub, "Runoff_Total")[j] # ResultOf(e.twin, "Runoff_Total")[j]

\* The indexes of sub i's lists that hold a value, for the measure m.
Filled(i, m) == {j \in DOMAIN ResultOf(i, m) : ResultOf(i, m)[j] # None}

\* C24: the run of a subcatchment is one pass over the clock: before the
\* step at instant number ti the write index is ti - 1 and the history index
\* is the write index + maxMA, the instants before it have their values in
\* all fifteen series and no other slot is written; when AMM_run returns it
\* has stepped through every instant, and when the loop of routing is over
\* every subcatchment, calculated or twinned, has fifteen series with one
\* value for every clock instant.
C24_OnePassFillsEverySlot ==
    /\ \A i \in DOMAIN results : \A m \in MeasNames :
          Len(ResultOf(i, m)) = Len(all_t)
    /\ pc = "run" =>
          /\ run.ti \in 1..(Len(all_t) + 1)
          /\ run.st.curIndex = run.ti - 1
          /\ run.st.curavgIndex = run.st.curIndex + run.d.maxMA
          /\ \A m \in MeasNames : Filled(sub_i, m) = 1..(run.ti - 1)
    /\ pc \in {"loop", "run", "calculated"} =>
          /\ \A i \in 1..(sub_i - 1) : \A m \in MeasNames : Filled(i, m) = DOMAIN all_t
          /\ \A i \in (sub_i + 1)..Len(amm_subs) : \A m \in MeasNames : Filled(i, m) = {}
    /\ pc = "calculated" =>
          /\ sub_i = Len(amm_subs) + 1
          /\ \A i \in DOMAIN amm_subs : DOMAIN results[i] = MeasNames
          /\ Cardinality(MeasNames) = 15

\* The loop is over for a layer of a calculated sub and a twin of it, each
\* with a value in the last slot of its temperature series.
C24_Witness ==
    /\ pc = "calculated" /\ TwinEntries # {}
    /\ \A i \in DOMAIN amm_subs : Len(all_t) \in Filled(i, "Temps")
    /\ Len(all_t) = MaxInstants

(***************************************************************************)
(* The caches _conformed_rain and _common_temps.                           *)
(***************************************************************************)
\* The calls of the log that are equal to c.
CallsOf(c) == {k \in DOMAIN called : called[k] = c}

\* Every entry of the cache before is in the cache after, unchanged.
CachesKept ==
    /\ \A g \in DOMAIN conformed_rain :
          g \in DOMAIN conformed_rain' /\ conformed_rain'[g] = conformed_rain[g]
    /\ Len(common_temps) > 0 => common_temps' = common_temps

\* C25: in one run of routing conform_rainfall is called at most once for a
\* gage and precalc_temps() at most once; a cached gage is exactly a gage it
\* was called for, every step of the program keeps the entries the caches
\* have, and a step of the recursion changes neither a cache nor the padded
\* rain and temperature lists of the running sub, which are the cached
\* series behind the sub's own maxMA leading values.
C25_CachesFilledOnce ==
    /\ [](/\ \A g \in DOMAIN gages : Cardinality(CallsOf(<<"conform_rainfall", g>>)) <= 1
          /\ Cardinality(CallsOf(<<"precalc_temps", "">>)) <= 1
          /\ \A g \in DOMAIN conformed_rain : CallsOf(<<"conform_rainfall", g>>) # {}
          /\ Len(common_temps) > 0 => CallsOf(<<"precalc_temps", "">>) # {}
          /\ pc = "run" =>
                /\ SubSeq(run.precip, run.d.maxMA + 1, Len(run.precip)) =
                      conformed_rain[this_sub.gage]
                /\ SubSeq(run.temps, run.d.maxMA + 1, Len(run.temps)) = common_temps)
    /\ [][CachesKept]_vars
    /\ [][(pc = "run" /\ pc' = "run") =>
             /\ conformed_rain' = conformed_rain /\ common_temps' = common_temps
             /\ run'.precip = run.precip /\ run'.temps = run.temps]_vars

\* Two subs that are not twins have run on the same gage, with one call of
\* conform_rainfall for the gage and one call of precalc_temps().
C25_Witness ==
    /\ pc = "calculated"
    /\ \E a, b \in DOMAIN amm_subs :
          /\ a < b /\ amm_subs[a].gage = amm_subs[b].gage
          /\ \E k1, k2 \in DOMAIN calc_log :
                /\ calc_log[k1] = [sub |-> a, kind |-> "run", twin |-> a]
                /\ calc_log[k2] = [sub |-> b, kind |-> "run", twin |-> b]
          /\ Cardinality(CallsOf(<<"conform_rainfall", amm_subs[a].gage>>)) = 1
    /\ Cardinality(CallsOf(<<"precalc_temps", "">>)) = 1

(***************************************************************************)
(* The lists given to conform_ts.  AMM_run calls conform_rainfall for a    *)
(* gage that is not cached, precalc_temps() while _common_temps is empty   *)
(* and precalc_temps(maxMA) always.  Each call works on the host's series  *)
(* (Data) and on a list it builds; conform_ts reverses and pops the list   *)
(* it is given.  The log `called` keeps, for every call of conform_ts, the *)
(* list given and what the call left of it.                                *)
(***************************************************************************)
\* Mutant: precalc_temps hands the host's own list to conform_ts.
conform_ts_arg_temps_host == "Data"

\* Line 1360: conform_ts(temp_list, out_times)
conform_ts_arg_temps == "temp_list"

\* Line 1426: conform_ts(cum_precip_list, out_times)
conform_ts_arg_rain == "cum_precip_list"

\* Lines 1356-1360: the lists of precalc_temps after its call of conform_ts.
precalc_temps_lists(maxMA, temp_data, times, s_t, step) ==
    The({[n \in {"Data", "temp_list"} |->
             IF n = conform_ts_arg_temps THEN conform_ts_left(temp_data, outs)
             ELSE temp_data] :
            outs \in {IF maxMA = -1 THEN times ELSE pre_times(maxMA, s_t, step)}})

\* Lines 1375-1426: the lists of conform_rainfall after its call of conform_ts.
conform_rainfall_lists(gage, times, step) ==
    The({[n \in {"Data", "cum_precip_list"} |->
             IF n = conform_ts_arg_rain
             THEN conform_ts_left(IF n = "Data" THEN gage.Series ELSE cum,
                                  rain_out_times(times, step))
             ELSE IF n = "Data" THEN gage.Series ELSE cum] :
            cum \in {cum_precip_list(gage)}})

\* Rain gages of the host: one sample for every step, or samples far apart.
ListGages(s) ==
    {PulseGage(s, <<5, 0, 5>>), PulseGage(s, <<0, 5, 0>>),
     [Series |-> <<<<s - 1, R(0)>>, <<s + 10, R(10)>>, <<s + 11, R(10)>>>>,
      TimeInterval |-> 1, RainFormat |-> "CUMULATIVE", DataSource |-> "TIMESERIES"]}

\* Temperature series of the host: a sample for every step, or samples far apart.
ListTemps(s) ==
    {RoutingTemps(s),
     <<<<s - 3, R(39)>>, <<s + 10, R(61)>>, <<s + 11, R(50)>>>>,
     <<<<s - 3, R(50)>>>>}

InitLists ==
    /\ IdleConform
    /\ IdleTSB /\ IdleOutput
    /\ calc_step_min = 1
    /\ calc_step_sec = <<calc_step_min * 60>>
    /\ start_t = 10
    /\ end_t = start_t + (MaxInstants - 1) * calc_step_min
    /\ all_t = clock(start_t, end_t, calc_step_min)
    /\ \E gage \in ListGages(start_t) : gages = [g \in {"G1"} |-> gage]
    /\ temp_timeseries \in ListTemps(start_t)
    /\ use_temp_timeseries \in BOOLEAN
    /\ conformed_rain = <<>> /\ common_temps = <<>>
    /\ rpc = "rain"
    /\ sub_i = 1
    /\ amm_subs = <<>> /\ already_calced_subs = <<>> /\ results = <<>> /\ heap = <<>>
    /\ run = NoRun /\ pc = "idle" /\ calc_log = <<>>
    /\ called = <<>> /\ returned = <<>>

\* The entry of the log for a call of conform_ts on the list named arg.
ConformCall(arg, before, lists) == [arg |-> arg, before |-> before, after |-> lists[arg]]

\* Lines 494-495: the rain of the gage, conformed unless it is cached.
L_Rain ==
    /\ rpc = "rain" /\ sub_i <= MaxSubs
    /\ IF "G1" \in DOMAIN conformed_rain
       THEN UNCHANGED <<gages, conformed_rain, called>>
       ELSE \E r \in {conform_rainfall(gages["G1"], all_t, calc_step_min, start_t, end_t)} :
            \E lists \in {conform_rainfall_lists(gages["G1"], all_t, calc_step_min)} :
               /\ r.status = "ok"
               /\ conformed_rain' = ("G1" :> r.vol) @@ conformed_rain
               /\ gages' = [gages EXCEPT !["G1"].Series = lists["Data"]]
               /\ called' = Append(called,
                     ConformCall(conform_ts_arg_rain,
                                 IF conform_ts_arg_rain = "Data" THEN gages["G1"].Series
                                 ELSE cum_precip_list(gages["G1"]), lists))
    /\ rpc' = "common"
    /\ UNCHANGED <<cvars, gvars, avars, tvars, ovars, returned>>

\* The temperatures precalc_temps returns and what it does to the lists.
TempsCall(maxMA) ==
    [r |-> precalc_temps(maxMA, use_temp_timeseries, temp_timeseries, all_t,
                         start_t, end_t, calc_step_min),
     lists |-> precalc_temps_lists(maxMA, temp_timeseries, all_t, start_t,
                                   calc_step_min)]

\* The effect of one call of precalc_temps on the host's series and the log.
TempsEffect(x) ==
    /\ x.r.status = "ok"
    /\ IF use_temp_timeseries
       THEN /\ temp_timeseries' = x.lists["Data"]
            /\ called' = Append(called,
                                ConformCall(conform_ts_arg_temps, temp_timeseries, x.lists))
       ELSE UNCHANGED <<temp_timeseries, called>>

\* Lines 505-507: the horizon temperatures, computed while the cache is empty.
L_Common ==
    /\ rpc = "common"
    /\ IF Len(common_temps) > 0
       THEN UNCHANGED <<temp_timeseries, common_temps, called>>
       ELSE \E x \in {TempsCall(-1)} : TempsEffect(x) /\ common_temps' = x.r.temps
    /\ rpc' = "pre"
    /\ UNCHANGED <<cvars, gvars, gages, conformed_rain, amm_subs, sub_i,
                   already_calced_subs, results, heap, run, use_temp_timeseries, pc,
                   calc_log, tvars, ovars, returned>>

\* Line 508: the temperatures of the maxMA steps before the horizon; then
\* the recursion runs and routing goes on to its next sub.
L_Pre ==
    /\ rpc = "pre"
    /\ \E maxMA \in 1..2 : \E x \in {TempsCall(maxMA)} : TempsEffect(x)
    /\ rpc' = "rain"
    /\ sub_i' = sub_i + 1
    /\ UNCHANGED <<cvars, gvars, gages, conformed_rain, amm_subs, already_calced_subs,
                   results, heap, run, common_temps, use_temp_timeseries, pc, calc_log,
                   tvars, ovars, returned>>

NextLists == L_Rain \/ L_Common \/ L_Pre

SpecLists == InitLists /\ [][NextLists]_vars

\* b is a list a call of conform_ts can leave of the list a: the samples of
\* a from some position on, in reverse order.
ReversedRest(a, b) == \E n \in 0..Len(a) : b = Reverse(SubSeq(a, n + 1, Len(a)))

\* C26 as stated: after every call of conform_ts the list given to it is
\* reversed and shorter than before, it is a list built for the call, and
\* no call changes the host's series or a cache.
C26_ReversedAndShortened ==
    /\ [](\A k \in DOMAIN called :
             /\ called[k].arg \in {"cum_precip_list", "temp_list"}
             /\ ReversedRest(called[k].before, called[k].after)
             /\ Len(called[k].after) < Len(called[k].before))
    /\ [][gages' = gages /\ temp_timeseries' = temp_timeseries /\ CachesKept]_vars

\* C26, amended: after every call of conform_ts the list given to it holds,
\* in reverse order, the samples the call has not popped, which can be all
\* of them; the list is the one conform_rainfall or precalc_temps built for
\* the call, and no call changes the host's series or a cache.
C26_PrivateListConsumed ==
    /\ [](\A k \in DOMAIN called :
             /\ called[k].arg \in {"cum_precip_list", "temp_list"}
             /\ ReversedRest(called[k].before, called[k].after)
             /\ Len(called[k].before) >= 2 => called[k].after # called[k].before)
    /\ [][gages' = gages /\ temp_timeseries' = temp_timeseries /\ CachesKept]_vars

\* Three calls of conform_ts have been made for the second sub's start: one
\* shortened its list, and the host's series are as they were.
C26_Witness ==
    /\ sub_i = 2 /\ Len(called) = 3
    /\ \E k \in DOMAIN called : Len(called[k].after) < Len(called[k].before)
    /\ gages["G1"] \in ListGages(start_t) /\ temp_timeseries \in ListTemps(start_t)
    /\ "G1" \in DOMAIN conformed_rain /\ Len(common_temps) = Len(all_t)

(***************************************************************************)
(* interp_seasonal_temp over the calendar: the function is applied to noon *)
(* of a day of the first months of an ordinary year, of a leap year and of *)
(* a century year that is not a leap year.                                 *)
(***************************************************************************)
\* The days of a year the function is applied to, counted from 1 January.
MaxDay == 59

SeasonYears == {EpochYear, EpochYear + 1, 2100}

\* The days from 1 January of EpochYear to 1 January of year y.
RECURSIVE YearStart(_)
YearStart(y) == IF y <= EpochYear THEN 0 ELSE YearStart(y - 1) + DaysInYear(y - 1)

SeasonTimes == {1440 * (YearStart(y) + d) + 720 : y \in SeasonYears, d \in 0..MaxDay}

InitSeason ==
    /\ IdleConform /\ IdleClock /\ IdleRain /\ IdleRouting
    /\ IdleTSB /\ IdleOutput
    /\ \E t \in SeasonTimes : called = <<[t |-> t]>>
    /\ returned = <<>>

\* Lines 1659-1699: one call of interp_seasonal_temp, with the center day it took.
S_interp_seasonal_temp ==
    /\ called # <<>> /\ returned = <<>>
    /\ \E dt \in {Date(called[1].t)} :
          returned' = <<[year |-> dt.year, month |-> dt.month, day |-> dt.day,
                         middleDay |-> middleDay(dt.year, dt.month),
                         value |-> interp_seasonal_temp(called[1].t)]>>
    /\ UNCHANGED <<cvars, gvars, rvars, avars, tvars, ovars, called>>

NextSeason == S_interp_seasonal_temp

SpecSeason == InitSeason /\ [][NextSeason]_vars

\* C27: for every month of every year the center day interp_seasonal_temp
\* uses is the ceiling of half the month's calendar day count (31 days for
\* January, 29 for February exactly in calendar leap years, 28 otherwise),
\* so that on that day the function returns the month's own average.
C27_CenterIsHalfCalendarMonth ==
    \A k \in DOMAIN returned :
        /\ returned[k].middleDay = HalfUp(CalendarDays(returned[k].year, returned[k].month))
        /\ returned[k].day = HalfUp(CalendarDays(returned[k].year, returned[k].month))
              => returned[k].value = tempDict[returned[k].month]

\* The averaging times of a sub, in steps: the lags MA is called with.
RainLags(sub) == {sub.PATFast, sub.PATMed, sub.PATSlow, sub.PATBase}

TempLags(sub) == {sub.SATFast, sub.SATMed, sub.SATSlow, sub.SATBase}

\* MA(previousData, L) reads inside previousData and averages a slice that
\* is not empty.
MASafe(previousData, L) ==
    /\ Len(previousData) >= RFloor(L) + 2
    /\ RFloor(RAdd(L, R(1))) >= 1

\* C28: at every step of every sub, for every averaging time L of the sub,
\* the history MA reads holds at least floor(L) + 2 samples and the number
\* of whole samples averaged is at least 1.
C28_HistoryCoversEveryLag ==
    pc = "run" =>
        /\ \A L \in RainLags(this_sub) : MASafe(run.st.previousPrecips, L)
        /\ \A L \in TempLags(this_sub) : MASafe(run.st.previousTemps, L)

\* A sub with a lag of more than one step and a lag of less than one step
\* is about to take its first step with exactly floor(max L) + 2 samples.
C28_Witness ==
    /\ pc = "run" /\ run.ti = 1
    /\ \E L \in RainLags(this_sub) :
          RFloor(L) = 1 /\ Len(run.st.previousPrecips) = RFloor(L) + 2
    /\ \E L \in RainLags(this_sub) : RFloor(L) = 0 /\ L # Zero
    /\ Len(run.st.previousTemps) = Len(run.st.previousPrecips)

(***************************************************************************)
(* The main block and the first uses of _calc_step_sec.  The user setting  *)
(* _calc_step_min is any whole number of minutes; the main block replaces  *)
(* a setting of 0 by the host's wet-weather step.  AMM_run then calls      *)
(* calc_decay_constant for the sub's seven half-lives, and the first       *)
(* AMM_timestep divides by _calc_step_sec.  Reading a name that is not     *)
(* bound raises NameError.                                                 *)
(***************************************************************************)
\* The largest step, in minutes, of the user setting and of the host.
MaxStepMin == 3

\* HHLFast, HHLMed, HHLSlow, HHLBase, AMHLFast, AMHLMed, AMHLSlow of a sub, in
\* seconds: a sub with every component in use, one without its fast
\* component and one with no component in use.
HalfLifeLists ==
    {<<R(60), R(30), R(20), R(60), R(30), R(20), R(60)>>,
     <<R(0), R(30), R(20), R(60), R(0), R(20), R(60)>>,
     <<R(0), R(0), R(0), R(0), R(0), R(0), R(0)>>}

InitMain ==
    /\ IdleConform /\ IdleRain /\ IdleTSB /\ IdleOutput
    /\ start_t = 0 /\ end_t = 0 /\ all_t = <<>>
    /\ calc_step_min \in 0..MaxStepMin
    /\ calc_step_sec = <<>>
    /\ amm_subs = <<>> /\ sub_i = 0 /\ already_calced_subs = <<>>
    /\ results = <<>> /\ heap = <<>> /\ run = NoRun /\ common_temps = <<>>
    /\ use_temp_timeseries = FALSE /\ temp_timeseries = <<>>
    /\ pc = "main" /\ calc_log = <<>>
    /\ \E HLs \in HalfLifeLists : called = <<HLs>>
    /\ returned = <<>>

\* Lines 1704-1708: a setting of 0 is replaced by the host's wet-weather
\* step, which must not be 0, and the step in seconds is set from it.
M_Main ==
    /\ pc = "main"
    /\ IF calc_step_min = 0
       THEN \E WetStep \in 0..MaxStepMin :
               /\ calc_step_min' = WetStep
               /\ IF WetStep = 0
                  THEN pc' = "raised" /\ UNCHANGED calc_step_sec
                  ELSE pc' = "run" /\ calc_step_sec' = <<WetStep * 60>>
       ELSE pc' = "run" /\ UNCHANGED <<calc_step_min, calc_step_sec>>
    /\ UNCHANGED <<cvars, rvars, xvars, start_t, end_t, all_t, amm_subs, sub_i,
                   already_calced_subs, results, heap, run, common_temps,
                   use_temp_timeseries, temp_timeseries, calc_log>>

\* Lines 457-464, 526-531: the next decay factor of AMM_run.
M_calc_decay_constant ==
    /\ pc = "run" /\ Len(returned) < Len(called[1])
    /\ \E HL \in {called[1][Len(returned) + 1]} :
          IF HL # Zero /\ calc_step_sec = <<>>
          THEN pc' = "NameError" /\ UNCHANGED returned
          ELSE /\ returned' = Append(returned, calc_decay_constant(HL, calc_step_sec[1]))
               /\ UNCHANGED pc
    /\ UNCHANGED <<cvars, gvars, rvars, tvars, ovars, called, amm_subs, sub_i,
                   already_calced_subs, results, heap, run, common_temps,
                   use_temp_timeseries, temp_timeseries, calc_log>>

\* Lines 603-606: the first step's flow divides by _calc_step_sec.
M_Flow ==
    /\ pc = "run" /\ Len(returned) = Len(called[1])
    /\ pc' = IF calc_step_sec = <<>> THEN "NameError" ELSE "timestep"
    /\ UNCHANGED <<cvars, gvars, rvars, xvars, amm_subs, sub_i,
                   already_calced_subs, results, heap, run, common_temps,
                   use_temp_timeseries, temp_timeseries, calc_log>>

NextMain == M_Main \/ M_calc_decay_constant \/ M_Flow

SpecMain == InitMain /\ [][NextMain]_vars

\* C29: for every configured step, a setting of 0 (the host's step is used,
\* and rejected when it is 0) or a number of minutes, once the main block
\* has let the run start the step in seconds is defined and is 60 times the
\* step in minutes.
C29_StepSecondsDefined ==
    pc \in {"run", "timestep"} => calc_step_sec = <<60 * calc_step_min>>

(***************************************************************************)
(* Routing of a layer of two subcatchments whose names are taken from a    *)
(* set that holds a name, another name, and the first name followed by     *)
(* "_" and a measurement name.                                             *)
(***************************************************************************)
LayerNames == {"S1", "S2", "S1_Runoff_Fast", "S1_PC_Med"}

\* The second entity is a twin of the first, or a sub of its own.
NamedLayers ==
    {<<Entity(ProfileA, n1, "J1", Q(6, 1000), "G1"), second>> :
        n1 \in LayerNames,
        second \in {Entity(p, n2, "J2", Q(18, 1000), "G1") :
                       p \in {ProfileA, ProfileB}, n2 \in LayerNames}}

InitNames ==
    /\ IdleConform
    /\ IdleTSB /\ IdleCall
    /\ rpc = "idle"
    /\ calc_step_min = 1
    /\ calc_step_sec = <<calc_step_min * 60>>
    /\ start_t = SeasonalStart
    /\ end_t = start_t + (MaxInstants - 1) * calc_step_min
    /\ all_t = clock(start_t, end_t, calc_step_min)
    /\ gages = RoutingGages(start_t)
    /\ conformed_rain = <<>>
    /\ use_temp_timeseries = FALSE
    /\ temp_timeseries = <<>>
    /\ amm_entities \in NamedLayers
    /\ amm_subs = <<>>
    /\ sub_i = 0
    /\ already_calced_subs = <<>>
    /\ results = <<>>
    /\ heap = <<>>
    /\ run = NoRun
    /\ common_temps = <<>>
    /\ pc = "names"
    /\ calc_log = <<>>
    /\ inflow_file = NoInflow /\ tsb_file = "old"

NextNames ==
    \/ R_UniqueNames \/ R_DuplicateNames \/ R_Construct
    \/ R_Twin \/ R_RunStart \/ R_Timestep \/ R_RunEnd \/ R_Calculated
    \/ R_Inflow \/ R_TSBOpen \/ R_TSBSeries \/ R_TSBFooter

SpecNames == InitNames /\ [][NextNames]_vars

\* C30: the names of the subcatchments being unique and not empty (the run
\* has ended otherwise), no two series written to the binary file have the
\* same function name and the same location name.
C30_SeriesUniquelyNamed ==
    \A i, j \in DOMAIN tsb_log :
        (tsb_log[i].func = tsb_log[j].func /\ tsb_log[i].loc = tsb_log[j].loc) => i = j

====
